---- MODULE Spec2Model ----
\* A model of cloudvault's observe -> evaluate -> act loop: the Policy Engine
\* (pkg/orchestrator/lifecycle/engine.go), the Lifecycle Controller
\* (controller.go), the intelligent recommender (recommender.go) and the
\* dashboard's refresh cycle (pkg/dashboard, Server.reconcile).
\*
\* Conventions
\*   - a Go string is a sequence of one-character strings: "30d" is <<"3","0","d">>;
\*   - a time.Duration and an age are whole seconds (the modelled strings carry
\*     no sub-second unit and no fraction);
\*   - byte counts are whole MiB;
\*   - a nil pointer or "no value" is the record NIL.
EXTENDS Integers, Sequences, FiniteSets, TLC

VARIABLES
    arg,        \* the input of the pure function under check (pure-function specifications)
    ret,        \* its result, NIL before the call
    engine,     \* LifecycleController.engine: NIL or [policies |-> <<...>>]
    manager,    \* LifecycleController.manager: NIL or a MigrationManager
    pc,         \* the reconcile goroutine: "idle" between ticks, "loop" inside reconcile's for
    metrics,    \* the snapshot the running reconcile pass ranges over
    idx,        \* index of the next resource of the pass
    trace,      \* the running (or last finished) pass: one entry per resource handled
    log,        \* the TriggerMigration calls of that pass, in order
    prev,       \* the pass before, for the watched resource: [pvc, entry, t], NIL if it had none
    now,        \* wall-clock time, seconds
    cluster,    \* what the metrics supplier reports: the list of resources
    tsdb,       \* IntelligentRecommender.tsdb: NIL or resource name -> stored history
    watch,      \* index of the resource whose consecutive passes are compared
    ticks,      \* ticks consumed so far
    store,      \* the dashboard's MetricsStore
    upstream,   \* outcome of the refresh cycle's upstream calls, drawn per cycle
    mu,         \* the store's sync.RWMutex: [writer, readers, pending]
    rpc,        \* Server.reconcile's goroutine: [at, k, writing], its position, the index
                \* of the assignment it is at, and whether that write is in progress
    hpc,        \* the store's readers (HTTP handlers, metrics supplier): "out", "rlocked"
                \* or "read" each
    ctxDone,    \* the context handed to Start or CollectAll has been cancelled
    supplied,   \* the metrics supplier's calls by Start: [calls, last], how many and the
                \* snapshot the latest one returned
    cpc,        \* CollectAll's collecting goroutine: [at, i], at "off", "enqueue", "collect"
                \* or "done", i the index of its enqueue loop
    jobs,       \* CollectAll's jobs channel: indices of the enumerated resources
    results,    \* CollectAll's results channel: the enriched metrics
    workers,    \* CollectAll's workers: [st |-> "idle"], [st |-> "exited"] or [st |-> "busy", job |-> i]
    collected   \* the metrics the collecting goroutine has appended so far

vars == <<arg, ret, engine, manager, pc, metrics, idx, trace, log, prev, now,
          cluster, tsdb, watch, ticks, store, upstream, mu, rpc, hpc, ctxDone,
          supplied,
          cpc, jobs, results, workers, collected>>

NIL == [nil |-> TRUE]

\* ---------------------------------------------------------------- bounds
MaxStrLen == 4      \* longest duration string enumerated
MaxTiers  == 3      \* longest tier list enumerated
MaxTicks  == 2      \* ticks of the reconcile loop explored
MaxCycles == 2      \* refresh cycles of the dashboard explored

\* ---------------------------------------------------------------- strings
DecimalDigits == {"0", "1", "2", "3", "4", "5", "6", "7", "8", "9"}

DigitVal(c) ==
    CASE c = "0" -> 0 [] c = "1" -> 1 [] c = "2" -> 2 [] c = "3" -> 3 [] c = "4" -> 4
      [] c = "5" -> 5 [] c = "6" -> 6 [] c = "7" -> 7 [] c = "8" -> 8 [] c = "9" -> 9

\* The characters duration strings are enumerated over: digits, the day, hour
\* and minute units, a sign, a blank and a letter that is no unit.
Alphabet == {"0", "1", "3", "d", "h", "m", "-", " ", "x"}

RECURSIVE StringsOfLen(_)
StringsOfLen(n) ==
    IF n = 0 THEN {<<>>}
    ELSE {Append(s, c) : s \in StringsOfLen(n - 1), c \in Alphabet}

Strings == UNION {StringsOfLen(n) : n \in 0..MaxStrLen}

Hour == 3600
Day  == 24 * Hour

\* strconv.ParseInt of the digits s[i..j-1], base 10
RECURSIVE DigitsValue(_, _, _)
DigitsValue(s, i, j) ==
    IF j <= i THEN 0 ELSE 10 * DigitsValue(s, i, j - 1) + DigitVal(s[j - 1])

\* ss.SkipSpace: the index of the first character at or after i that is no blank
RECURSIVE SkipSpace(_, _)
SkipSpace(s, i) ==
    IF i <= Len(s) /\ s[i] = " " THEN SkipSpace(s, i + 1) ELSE i

\* ss.scanNumber: the index after the run of digits that starts at i
RECURSIVE ScanNumber(_, _)
ScanNumber(s, i) ==
    IF i <= Len(s) /\ s[i] \in DecimalDigits THEN ScanNumber(s, i + 1) ELSE i

\* fmt.Sscanf(durStr, "%dd", &days): %d skips leading blanks, takes an optional
\* sign and a non-empty run of digits; the literal d must be the next
\* character; whatever follows the format's last character is left unread.
Sscanf(s) ==
    LET i0  == SkipSpace(s, 1)
        sgn == i0 <= Len(s) /\ s[i0] \in {"+", "-"}
        i1  == IF sgn THEN i0 + 1 ELSE i0
        i2  == ScanNumber(s, i1)
        v   == DigitsValue(s, i1, i2)
    IN  IF i2 = i1 THEN [n |-> 0, err |-> TRUE, days |-> 0]
        ELSE IF i2 > Len(s) \/ s[i2] # "d" THEN [n |-> 1, err |-> TRUE, days |-> 0]
        ELSE [n |-> 1, err |-> FALSE, days |-> IF sgn /\ s[i0] = "-" THEN 0 - v ELSE v]

\* the unit of time.ParseDuration: the run of characters up to the next digit
RECURSIVE UnitEnd(_, _)
UnitEnd(s, i) ==
    IF i <= Len(s) /\ s[i] \notin DecimalDigits THEN UnitEnd(s, i + 1) ELSE i

UnitSeconds(u) ==
    CASE u = <<"h">> -> Hour
      [] u = <<"m">> -> 60
      [] u = <<"s">> -> 1
      [] OTHER -> 0

\* time.ParseDuration after the sign: one or more <digits><unit> terms
RECURSIVE ParseTerms(_, _, _)
ParseTerms(s, i, acc) ==
    IF i > Len(s) THEN [err |-> FALSE, d |-> acc]
    ELSE LET j == ScanNumber(s, i)
             k == UnitEnd(s, j)
             u == SubSeq(s, j, k - 1)
         IN  IF j = i \/ k = j \/ u \notin {<<"h">>, <<"m">>, <<"s">>}
             THEN [err |-> TRUE, d |-> 0]
             ELSE LET r == ParseTerms(s, k, acc + DigitsValue(s, i, j) * UnitSeconds(u))
                  IN  r

TimeParseDuration(s) ==
    LET sgn  == Len(s) > 0 /\ s[1] \in {"+", "-"}
        i1   == IF sgn THEN 2 ELSE 1
        rest == SubSeq(s, i1, Len(s))
        r    == ParseTerms(s, i1, 0)
    IN  IF rest = <<"0">> THEN [err |-> FALSE, d |-> 0]
        ELSE IF rest = <<>> THEN [err |-> TRUE, d |-> 0]
        ELSE IF r.err THEN r
        ELSE [err |-> FALSE, d |-> IF sgn /\ s[1] = "-" THEN 0 - r.d ELSE r.d]

\* ParseDuration handles standard Go durations plus 'd' for days
ParseDuration(durStr) ==
    IF Len(durStr) = 0 THEN [err |-> TRUE, d |-> 0]
    ELSE IF durStr[Len(durStr)] = "d"
    THEN LET sc == Sscanf(durStr)
         IN  IF sc.err \/ sc.n # 1 THEN [err |-> TRUE, d |-> 0]
             ELSE [err |-> FALSE, d |-> sc.days * Day]
    ELSE TimeParseDuration(durStr)

\* ---------------------------------------------------------------- policy engine
\* v1alpha1.StorageTier
Tier(name, class, duration) == [Name |-> name, StorageClass |-> class, Duration |-> duration]

\* v1alpha1.StorageLifecyclePolicy: Name, Spec.Selector.{MatchNamespaces, MatchLabels}, Spec.Tiers
Policy(name, namespaces, labels, tiers) ==
    [Name |-> name, MatchNamespaces |-> namespaces, MatchLabels |-> labels, Tiers |-> tiers]

\* a Go map[string]string is a function from its keys; a nil map is the empty function
EmptyMap == [k \in {} |-> NIL]

\* for _, ns := range MatchNamespaces { if ns == pvc.Namespace ... }, an empty list matching all
NsMatch(policy, pvc) ==
    \/ Len(policy.MatchNamespaces) = 0
    \/ \E i \in 1..Len(policy.MatchNamespaces) : policy.MatchNamespaces[i] = pvc.Namespace

\* for k, v := range MatchLabels { if val, ok := pvc.Labels[k]; !ok || val != v ... }
LabelMatch(policy, pvc) ==
    \A k \in DOMAIN policy.MatchLabels :
        k \in DOMAIN pvc.Labels /\ pvc.Labels[k] = policy.MatchLabels[k]

\* Match as it would be if a later matching policy overrode an earlier one
RECURSIVE MatchFromLast(_, _, _)
MatchFromLast(policies, pvc, i) ==
    IF i > Len(policies) THEN 0
    ELSE LET later == MatchFromLast(policies, pvc, i + 1)
         IN  IF later # 0 THEN later
             ELSE IF NsMatch(policies[i], pvc) /\ LabelMatch(policies[i], pvc) THEN i
             ELSE 0

\* the loop of PolicyEngine.Match from policy i on: the index of the policy returned, 0 for nil
RECURSIVE MatchFrom(_, _, _)
MatchFrom(policies, pvc, i) ==
    IF i > Len(policies) THEN 0
    ELSE IF ~NsMatch(policies[i], pvc) THEN MatchFrom(policies, pvc, i + 1)
    ELSE IF LabelMatch(policies[i], pvc) THEN i
    ELSE MatchFrom(policies, pvc, i + 1)

\* PolicyEngine.Match: the policy returned, NIL for nil
Match(policies, pvc) ==
    LET i == MatchFrom(policies, pvc, 1)
    IN  IF i = 0 THEN NIL ELSE policies[i]

\* the first loop of Evaluate: the Go index of the first tier on the resource's class, -1 if none
RECURSIVE CurrentTierIndex(_, _, _)
CurrentTierIndex(tiers, class, i) ==
    IF i > Len(tiers) THEN 0 - 1
    ELSE IF tiers[i].StorageClass = class THEN i - 1
    ELSE CurrentTierIndex(tiers, class, i + 1)

\* the scan as it would be if it ran from the least advanced tier up and
\* stopped at the first tier whose duration has been exceeded
RECURSIVE ScanUp(_, _, _)
ScanUp(tiers, pvcAge, j) ==
    IF j > Len(tiers) - 1 THEN [err |-> FALSE, idx |-> 0 - 1]
    ELSE LET dur == ParseDuration(tiers[j + 1].Duration)
         IN  IF dur.err THEN [err |-> TRUE, idx |-> 0 - 1]
             ELSE IF pvcAge > dur.d THEN [err |-> FALSE, idx |-> j]
             ELSE ScanUp(tiers, pvcAge, j + 1)

TargetTierScanUp(tiers, pvcAge, i) == ScanUp(tiers, pvcAge, 0)

\* the second loop of Evaluate, from Go index i down to 0: [err, idx], idx -1 when
\* no tier's duration has been exceeded; a duration is parsed only when reached
RECURSIVE TargetTierScan(_, _, _)
TargetTierScan(tiers, pvcAge, i) ==
    IF i < 0 THEN [err |-> FALSE, idx |-> 0 - 1]
    ELSE LET dur == ParseDuration(tiers[i + 1].Duration)
         IN  IF dur.err THEN [err |-> TRUE, idx |-> 0 - 1]
             ELSE IF pvcAge > dur.d THEN [err |-> FALSE, idx |-> i]
             ELSE TargetTierScan(tiers, pvcAge, i - 1)

\* Evaluate as it would be if it also returned the tier the resource is on
EvaluateNotStrict(pvc, policy, t) ==
    IF policy = NIL THEN [tier |-> NIL, err |-> FALSE]
    ELSE LET tiers  == policy.Tiers
             pvcAge == t - pvc.CreatedAt
             cur    == CurrentTierIndex(tiers, pvc.StorageClass, 1)
             scan   == TargetTierScan(tiers, pvcAge, Len(tiers) - 1)
         IN  IF scan.err THEN [tier |-> NIL, err |-> TRUE]
             ELSE IF scan.idx >= cur /\ scan.idx >= 0
                  THEN [tier |-> tiers[scan.idx + 1], err |-> FALSE]
             ELSE [tier |-> NIL, err |-> FALSE]

\* PolicyEngine.Evaluate at time t (pvcAge := time.Since(pvc.CreatedAt)): [tier, err]
Evaluate(pvc, policy, t) ==
    IF policy = NIL THEN [tier |-> NIL, err |-> FALSE]
    ELSE LET tiers  == policy.Tiers
             pvcAge == t - pvc.CreatedAt
             cur    == CurrentTierIndex(tiers, pvc.StorageClass, 1)
             scan   == TargetTierScan(tiers, pvcAge, Len(tiers) - 1)
         IN  IF scan.err THEN [tier |-> NIL, err |-> TRUE]
             ELSE IF scan.idx > cur THEN [tier |-> tiers[scan.idx + 1], err |-> FALSE]
             ELSE [tier |-> NIL, err |-> FALSE]

\* types.PVCMetric, the fields the lifecycle code reads
PVC(name, ns, labels, class, created, size, usedBytes, egress) ==
    [Name |-> name, Namespace |-> ns, Labels |-> labels, StorageClass |-> class,
     CreatedAt |-> created, SizeBytes |-> size, UsedBytes |-> usedBytes,
     EgressBytes |-> egress]

\* ---------------------------------------------------------------- quiescent parts
ctrlVars   == <<engine, manager, pc, metrics, idx, trace, log, prev, now, cluster, tsdb,
               watch, ticks>>
lockVars   == <<mu, rpc, hpc>>
serverVars == <<store, upstream, lockVars>>
startVars  == <<ctxDone, supplied>>
collVars   == <<cpc, jobs, results, workers, collected>>
pureVars   == <<arg, ret>>

PureQuiet == arg = NIL /\ ret = NIL

CtrlQuiet ==
    /\ engine = NIL /\ manager = NIL /\ pc = "idle" /\ metrics = <<>> /\ idx = 0
    /\ trace = <<>> /\ log = <<>> /\ prev = NIL /\ now = 0 /\ cluster = <<>>
    /\ tsdb = NIL /\ watch = 0 /\ ticks = 0

LockQuiet == mu = NIL /\ rpc = NIL /\ hpc = NIL

ServerQuiet == store = NIL /\ upstream = NIL /\ LockQuiet

StartQuiet == ctxDone = FALSE /\ supplied = [calls |-> 0, last |-> <<>>]

CollQuiet ==
    cpc = [at |-> "off", i |-> 0] /\ jobs = <<>> /\ results = <<>> /\ workers = <<>> /\ collected = <<>>

\* ---------------------------------------------------------------- ParseDuration on its own
InitParse == arg \in Strings /\ ret = NIL /\ CtrlQuiet /\ ServerQuiet /\ StartQuiet /\ CollQuiet

ParseDurationCall ==
    /\ ret = NIL
    /\ ret' = ParseDuration(arg)
    /\ UNCHANGED <<arg, ctrlVars, serverVars, startVars, collVars>>

NextParse == ParseDurationCall

SpecParse == InitParse /\ [][NextParse]_vars

\* ---------------------------------------------------------------- Match on its own
MaxPolicies == 2    \* longest policy list enumerated for Match

Namespaces == {"production", "staging"}

LabelMaps ==
    {EmptyMap, [k \in {"app"} |-> "postgres"], [k \in {"app"} |-> "redis"],
     [k \in {"app", "tier"} |-> IF k = "app" THEN "postgres" ELSE "db"]}

NamespaceLists == {<<>>, <<"production">>, <<"staging">>, <<"staging", "production">>}

PolicyName(i) == CASE i = 1 -> "p1" [] i = 2 -> "p2" [] i = 3 -> "p3" [] OTHER -> "p4"

RECURSIVE PolicyLists(_)
PolicyLists(n) ==
    IF n = 0 THEN {<<>>}
    ELSE {Append(ps, Policy(PolicyName(n), nss, lm, <<>>)) :
            ps \in PolicyLists(n - 1), nss \in NamespaceLists, lm \in LabelMaps}

InitMatch ==
    /\ arg \in {[pvc |-> PVC("data", ns, lm, "gp3", 0, 0, 0, 0), policies |-> ps] :
                  ns \in Namespaces, lm \in LabelMaps,
                  ps \in UNION {PolicyLists(n) : n \in 0..MaxPolicies}}
    /\ ret = NIL /\ CtrlQuiet /\ ServerQuiet /\ StartQuiet /\ CollQuiet

MatchCall ==
    /\ ret = NIL
    /\ ret' = [policy |-> Match(arg.policies, arg.pvc)]
    /\ UNCHANGED <<arg, ctrlVars, serverVars, startVars, collVars>>

NextMatch == MatchCall

SpecMatch == InitMatch /\ [][NextMatch]_vars

\* ---------------------------------------------------------------- Evaluate on its own
S(str) ==
    CASE str = "0s"  -> <<"0", "s">>
      [] str = "7d"  -> <<"7", "d">>
      [] str = "30d" -> <<"3", "0", "d">>
      [] str = "7x"  -> <<"7", "x">>

\* the tiers of the engine's own test policy
TestTiers ==
    <<Tier("hot", "gp3", S("0s")), Tier("warm", "sc1", S("7d")), Tier("cold", "glacier", S("30d"))>>

TierClasses == {"gp3", "sc1", "glacier"}
TierDurations == {S("0s"), S("7d"), S("30d"), S("7x")}
TierName(i) == CASE i = 1 -> "hot" [] i = 2 -> "warm" [] i = 3 -> "cold" [] OTHER -> "archive"

RECURSIVE TierLists(_)
TierLists(n) ==
    IF n = 0 THEN {<<>>}
    ELSE {Append(ts, Tier(TierName(n), c, d)) :
            ts \in TierLists(n - 1), c \in TierClasses, d \in TierDurations}

EvalAges == {Day, 7 * Day, 8 * Day, 40 * Day}

InitEval ==
    /\ arg \in {[pvc |-> PVC("data", "production", EmptyMap, c, 0, 0, 0, 0),
                 policy |-> Policy("test-policy", <<>>, EmptyMap, ts), t |-> age] :
                  c \in TierClasses \cup {"standard"}, age \in EvalAges,
                  ts \in UNION {TierLists(n) : n \in 0..MaxTiers}}
    /\ ret = NIL /\ CtrlQuiet /\ ServerQuiet /\ StartQuiet /\ CollQuiet

EvaluateCall ==
    /\ ret = NIL
    /\ ret' = Evaluate(arg.pvc, arg.policy, arg.t)
    /\ UNCHANGED <<arg, ctrlVars, serverVars, startVars, collVars>>

NextEval == EvaluateCall

SpecEval == InitEval /\ [][NextEval]_vars

\* ---------------------------------------------------------------- Evaluate after its tier is applied
\* Evaluate, then the migration to the returned tier's class, then Evaluate
\* again at the same clock. ret keeps the resource as first evaluated and both
\* results.
InitConverge == InitEval

EvaluateFirst ==
    /\ ret = NIL
    /\ ret' = [before |-> arg.pvc, first |-> Evaluate(arg.pvc, arg.policy, arg.t),
               applied |-> FALSE, second |-> NIL]
    /\ UNCHANGED <<arg, ctrlVars, serverVars, startVars, collVars>>

\* the migration is carried out: the resource is on the tier's storage class
ApplyTier ==
    /\ ret # NIL /\ ~ret.applied /\ ret.first.tier # NIL
    /\ arg' = [arg EXCEPT !.pvc.StorageClass = ret.first.tier.StorageClass]
    /\ ret' = [ret EXCEPT !.applied = TRUE]
    /\ UNCHANGED <<ctrlVars, serverVars, startVars, collVars>>

EvaluateAgain ==
    /\ ret # NIL /\ ret.applied /\ ret.second = NIL
    /\ ret' = [ret EXCEPT !.second = Evaluate(arg.pvc, arg.policy, arg.t)]
    /\ UNCHANGED <<arg, ctrlVars, serverVars, startVars, collVars>>

NextConverge == EvaluateFirst \/ ApplyTier \/ EvaluateAgain

SpecConverge == InitConverge /\ [][NextConverge]_vars

\* ---------------------------------------------------------------- recommender
GiB == 1024     \* MiB in 1024*1024*1024 bytes

\* the classes Recommend offers the RL agent
AvailableClasses == <<"standard", "sc1", "gp3", "io2">>

\* IntelligentRecommender.detectWorkloadType (100 MiB of egress)
detectWorkloadType(pvc) ==
    IF pvc.EgressBytes > 100 THEN "high-egress" ELSE "standard"

\* RLAgent.DecidePlacement: what it may return. With probability explorationRate
\* any of the classes; otherwise the first class of the highest Q-value, the
\* first class while the Q-table holds only its initial zeros (Reward has no
\* caller outside the tests).
DecidePlacement(workloadType, availableClasses) ==
    {availableClasses[i] : i \in DOMAIN availableClasses}

\* FormatQuantity on a byte count of whole MiB
FormatQuantity(bytes) ==
    IF bytes >= GiB THEN [n |-> bytes \div GiB, unit |-> "Gi"]
    ELSE IF bytes >= 1 THEN [n |-> bytes, unit |-> "Mi"]
    ELSE [n |-> bytes, unit |-> ""]

\* OptimizationRecommendation
Rec(class, tier, size, reason) ==
    [TargetClass |-> class, TargetTier |-> tier, TargetSize |-> size, Reason |-> reason]

\* tsdb.GetHistory for the resource: the stored samples, <<>> without a TSDB
GetHistory(pvc) ==
    IF tsdb = NIL \/ pvc.Name \notin DOMAIN tsdb THEN <<>> ELSE tsdb[pvc.Name]

\* AnomalyEngine.IsZombie on the stored samples (used_bytes, compared with 0.05)
IsZombie(history) ==
    Len(history) > 0 /\ \A i \in 1..Len(history) : ~(history[i] * 100 > 5)

\* IntelligentRecommender.Recommend, optimizedClass being DecidePlacement's
\* answer: the recommendation, NIL for none
Recommend(pvc, policy, optimizedClass) ==
    LET size     == pvc.SizeBytes
        usedB    == pvc.UsedBytes
        \* usageRatio < 0.3, usageRatio being 0 when SizeBytes <= 0
        under30  == IF size > 0 THEN usedB * 10 < 3 * size ELSE TRUE
        h        == GetHistory(pvc)
        \* usageRatio < 0.05 and IsZombie(history) on the fallback history [usageRatio]
        ownLow   == IF size > 0 THEN usedB * 100 < 5 * size ELSE TRUE
        \* with stored history usageRatio is its last sample
        zombie   == IF Len(h) > 0 THEN h[Len(h)] * 100 < 5 /\ IsZombie(h) ELSE ownLow
        wanted   == (usedB * 3) \div 2
        newSize  == IF wanted < GiB THEN GiB ELSE wanted
    IN  IF under30 /\ size > 10 * GiB
        THEN Rec(optimizedClass, "hot", FormatQuantity(newSize), "Right-sizing")
        ELSE IF zombie
        THEN Rec(optimizedClass, "cold", FormatQuantity(size), "Optimization")
        ELSE IF optimizedClass # pvc.StorageClass
        THEN Rec(optimizedClass, "warm", FormatQuantity(size), "Placement")
        ELSE NIL

\* ---------------------------------------------------------------- lifecycle controller
Interval == 60      \* the controller's tick interval, seconds

Argo == [kind |-> "ArgoMigrationManager"]

\* the rule-based recommendation reconcile synthesizes from the target tier
RuleRec(pvc, tier) ==
    Rec(tier.StorageClass, "warm", FormatQuantity(pvc.SizeBytes), "Rule-based Tiering")

\* reconcile as it would be without the continue after the AI transition: the
\* rule-based transition is executed as well
DecideFallThrough(policies, pvc, optimizedClass, t) ==
    LET policy == Match(policies, pvc)
        rec    == Recommend(pvc, policy, optimizedClass)
        ev     == Evaluate(pvc, policy, t)
        ai     == IF rec # NIL THEN <<rec>> ELSE <<>>
        rule   == IF ~ev.err /\ ev.tier # NIL THEN <<RuleRec(pvc, ev.tier)>> ELSE <<>>
    IN  IF policy = NIL THEN [policy |-> NIL, path |-> "nomatch", recs |-> <<>>]
        ELSE [policy |-> policy.Name, path |-> IF rec # NIL THEN "ai" ELSE "rule",
              recs |-> ai \o rule]

\* One iteration of reconcile's loop up to its executeTransition call, for
\* DecidePlacement's answer optimizedClass: [policy, path, recs], recs being the
\* recommendations handed to executeTransition, in order.
Decide(policies, pvc, optimizedClass, t) ==
    LET policy == Match(policies, pvc)
        rec    == Recommend(pvc, policy, optimizedClass)
        ev     == Evaluate(pvc, policy, t)
    IN  IF policy = NIL THEN [policy |-> NIL, path |-> "nomatch", recs |-> <<>>]
        ELSE IF rec # NIL THEN [policy |-> policy.Name, path |-> "ai", recs |-> <<rec>>]
        ELSE IF ev.err THEN [policy |-> policy.Name, path |-> "evalerr", recs |-> <<>>]
        ELSE IF ev.tier # NIL
        THEN [policy |-> policy.Name, path |-> "rule", recs |-> <<RuleRec(pvc, ev.tier)>>]
        ELSE [policy |-> policy.Name, path |-> "noaction", recs |-> <<>>]

\* the watched resource was sent to this target class by the pass before
RequestedBefore(pvc, rec) ==
    /\ prev # NIL /\ prev.pvc.Name = pvc.Name
    /\ prev.entry.result # "none"
    /\ \E k \in DOMAIN prev.entry.recs : prev.entry.recs[k].TargetClass = rec.TargetClass

\* the guard as it would be with a requested-state cache: trigger once and forget
ShouldTriggerOnce(pvc, rec) == manager # NIL /\ ~RequestedBefore(pvc, rec)

\* the guard as it would be with retry-until-acknowledged: a request that was
\* accepted is not repeated
ShouldTriggerUntilAck(pvc, rec) ==
    manager # NIL /\ ~(RequestedBefore(pvc, rec) /\ prev.entry.result = "ok")

\* executeTransition's guard on the TriggerMigration call: a manager is configured
ShouldTrigger(pvc, rec) == manager # NIL

\* the loop as it would be if a failed request ended the pass
NextIndexAbortOnError(i, res) == IF res = "err" THEN Len(metrics) + 1 ELSE i + 1

\* where the loop goes after an iteration whose TriggerMigration calls ended res
NextIndex(i, res) == i + 1

\* the target-tier parameter ArgoMigrationManager.TriggerMigration puts into the
\* workflow: pvc.Labels["cloudvault.io/tier"], the empty string without the label
TierLabel(pvc) ==
    IF "cloudvault.io/tier" \in DOMAIN pvc.Labels THEN pvc.Labels["cloudvault.io/tier"]
    ELSE ""

\* the TriggerMigration calls executeTransition makes for recs, each ending res:
\* the resource, the target class and size handed over, and the target tier
\* the submitted workflow carries
Calls(pvc, recs, res) ==
    [k \in 1..Len(recs) |->
        [Name |-> pvc.Name, TargetClass |-> recs[k].TargetClass,
         TargetSize |-> recs[k].TargetSize, TargetTier |-> TierLabel(pvc),
         result |-> res]]

RECURSIVE SelectSeq2(_, _, _)
SelectSeq2(pvc, recs, k) ==
    IF k > Len(recs) THEN <<>>
    ELSE IF ShouldTrigger(pvc, recs[k]) THEN <<recs[k]>> \o SelectSeq2(pvc, recs, k + 1)
    ELSE SelectSeq2(pvc, recs, k + 1)

\* Start: the ticker fires; the supplier's snapshot is taken and reconcile entered
\* (it returns at once while no policy set has been given)
Tick ==
    /\ pc = "idle" /\ ticks < MaxTicks
    /\ ticks' = ticks + 1
    /\ now' = now + Interval
    /\ metrics' = cluster
    /\ prev' = IF watch \in DOMAIN trace
               THEN [pvc |-> metrics[watch], entry |-> trace[watch], t |-> now]
               ELSE NIL
    /\ trace' = <<>> /\ log' = <<>> /\ idx' = 1
    /\ pc' = IF engine = NIL THEN "idle" ELSE "loop"
    /\ supplied' = [calls |-> supplied.calls + 1, last |-> cluster]
    /\ UNCHANGED <<engine, manager, cluster, tsdb, watch, ctxDone, pureVars, serverVars,
                   collVars>>

\* reconcile: one iteration of the loop, for metrics[idx], on the engine c.engine
\* holds now (d, sent and calls each range over the one value the iteration computes)
ReconcileStep ==
    /\ pc = "loop" /\ idx <= Len(metrics)
    /\ LET pvc == metrics[idx]
       IN  \E oc \in DecidePlacement(detectWorkloadType(pvc), AvailableClasses) :
           \E res \in {"ok", "err"} :
             \E d \in {Decide(engine.policies, pvc, oc, now)} :
             \E sent \in {SelectSeq2(pvc, d.recs, 1)} :
             \E calls \in {Calls(pvc, sent, res)} :
                 /\ (Len(sent) = 0 => res = "ok")
                 /\ trace' = Append(trace,
                        [Name |-> pvc.Name, policies |-> engine.policies,
                         policy |-> d.policy, path |-> d.path, recs |-> d.recs,
                         result |-> IF Len(sent) = 0 THEN "none" ELSE res])
                 /\ log' = log \o calls
                 /\ idx' = NextIndex(idx, IF Len(sent) = 0 THEN "none" ELSE res)
    /\ UNCHANGED <<engine, manager, pc, metrics, prev, now, cluster, tsdb, watch, ticks,
                   pureVars, serverVars, startVars, collVars>>

\* reconcile: the loop is over
ReconcileReturn ==
    /\ pc = "loop" /\ idx > Len(metrics)
    /\ pc' = "idle"
    /\ UNCHANGED <<engine, manager, metrics, idx, trace, log, prev, now, cluster, tsdb,
                   watch, ticks, pureVars, serverVars, startVars, collVars>>

\* ---- the policy sets the refresh cycle hands to SetPolicies
AppPostgres == [k \in {"app"} |-> "postgres"]

DbTiersBad == <<Tier("hot", "standard", S("0s")), Tier("warm", "sc1", S("7x"))>>

\* a namespace policy on the test tiers and a label policy whose second tier
\* does not parse; and the empty set a failed listing leaves
PolicySets ==
    {<<Policy("policy-ns-prod", <<"production">>, EmptyMap, TestTiers),
       Policy("policy-label-db", <<>>, AppPostgres, DbTiersBad)>>,
     <<>>}

\* SetPolicies, called from the refresh goroutine at any point of a pass
SetPolicies ==
    /\ \E policies \in PolicySets : engine' = [policies |-> policies]
    /\ UNCHANGED <<manager, pc, metrics, idx, trace, log, prev, now, cluster, tsdb, watch,
                   ticks, pureVars, serverVars, startVars, collVars>>

\* ---- what the metrics supplier may report
\* a resource of the production namespace on the hot class, and a labelled
\* database volume that is half full or over-provisioned (10% used)
Clusters ==
    {<<PVC("data-prod", "production", EmptyMap, "gp3", 0, 20 * GiB, 10 * GiB, 0),
       PVC("data-db", "staging", AppPostgres, "standard", 0, 20 * GiB, u, 0)>> :
        u \in {10 * GiB, 2 * GiB}}

\* the resources' age at start: just short of the warm threshold, past it, and
\* just short of the cold threshold
StartTimes == {7 * Day - 90, 8 * Day, 30 * Day - 90}

Init ==
    /\ engine = NIL
    /\ manager \in {NIL, Argo}
    /\ pc = "idle" /\ metrics = <<>> /\ idx = 0 /\ trace = <<>> /\ log = <<>> /\ prev = NIL
    /\ now \in StartTimes
    /\ cluster \in Clusters
    /\ tsdb = NIL
    /\ watch \in DOMAIN cluster
    /\ ticks = 0
    /\ PureQuiet /\ ServerQuiet /\ StartQuiet /\ CollQuiet

Next == Tick \/ ReconcileStep \/ ReconcileReturn \/ SetPolicies

Spec == Init /\ [][Next]_vars

\* ---------------------------------------------------------------- Start under cancellation
\* the caller cancels the context handed to Start
Cancel ==
    /\ ~ctxDone /\ pc # "returned"
    /\ ctxDone' = TRUE
    /\ UNCHANGED <<ctrlVars, supplied, pureVars, serverVars, collVars>>

\* Start as it would be if cancellation cut a running pass short
StartReturnInterrupting ==
    /\ pc \in {"idle", "loop"} /\ ctxDone
    /\ pc' = "returned"
    /\ UNCHANGED <<engine, manager, metrics, idx, trace, log, prev, now, cluster, tsdb,
                   watch, ticks, pureVars, serverVars, startVars, collVars>>

\* Start's select takes ctx.Done(): return. The select is reached only between
\* passes; with a tick pending as well it may take the tick instead.
StartReturn ==
    /\ pc = "idle" /\ ctxDone
    /\ pc' = "returned"
    /\ UNCHANGED <<engine, manager, metrics, idx, trace, log, prev, now, cluster, tsdb,
                   watch, ticks, pureVars, serverVars, startVars, collVars>>

\* the cluster changes between two calls of the supplier
ClusterChange ==
    /\ \E c \in Clusters : c # cluster /\ cluster' = c
    /\ UNCHANGED <<engine, manager, pc, metrics, idx, trace, log, prev, now, tsdb, watch,
                   ticks, pureVars, serverVars, startVars, collVars>>

InitStart == Init /\ manager = Argo /\ watch = 1 /\ now = 8 * Day

NextStart == Next \/ Cancel \/ StartReturn \/ ClusterChange

\* the goroutine inside reconcile's loop takes its next iteration: what every
\* ReconcileStep does to the loop index
ReconcileAdvances == pc = "loop" /\ idx <= Len(metrics) /\ idx' = idx + 1

\* The goroutine running Start keeps being scheduled, so reconcile runs to its
\* end; and a select that keeps finding ctx.Done() ready takes it in the end
\* (Go picks among the ready cases at random).
SpecStart ==
    /\ InitStart /\ [][NextStart]_vars
    /\ WF_idx(ReconcileAdvances) /\ WF_vars(ReconcileReturn) /\ SF_vars(StartReturn)

\* ---------------------------------------------------------------- the dashboard's refresh cycle
\* Server.Start runs Server.reconcile at once and then every 30 seconds.
RefreshInterval == 30

\* what an upstream call answers: an error, or a value
ERR == [err |-> TRUE]

Ok(v) == [err |-> FALSE, value |-> v]

\* the zero MetricsStore NewServer builds
EmptyStore ==
    [Metrics |-> <<>>, Summary |-> NIL, Recommendations |-> NIL, Policies |-> <<>>,
     LastUpdate |-> 0]

\* initializePVCMetric: what the inventory alone says of a volume (UsedBytes 0)
Listed(name, ns, labels, class) == PVC(name, ns, labels, class, 0, 20 * GiB, 0, 0)

\* what the PVC list call can answer
InventoryOutcomes ==
    {ERR,
     Ok(<<>>),
     Ok(<<Listed("data-prod", "production", EmptyMap, "gp3")>>),
     Ok(<<Listed("data-prod", "production", EmptyMap, "gp3"),
          Listed("data-db", "staging", AppPostgres, "standard")>>)}

\* what GetAllPVCMetrics can answer: used bytes by volume name
UsageOutcomes ==
    {ERR, Ok([n \in {"data-prod", "data-db"} |->
                 IF n = "data-prod" THEN 10 * GiB ELSE 2 * GiB])}

\* what ListStoragePolicies can answer
PolicyOutcomes == {ERR} \cup {Ok(p) : p \in PolicySets}

\* a worker's enrichment of one volume from the usage batch; the batch is nil
\* when the usage source failed, its error being dropped
Enrich(pvc, usage) ==
    IF ~usage.err /\ pvc.Name \in DOMAIN usage.value
    THEN [pvc EXCEPT !.UsedBytes = usage.value[pvc.Name]]
    ELSE pvc

\* the orders in which the worker pool can deliver n results
Orders(n) == {f \in [1..n -> 1..n] : \A i, j \in 1..n : f[i] = f[j] => i = j}

\* PVCCollector.CollectAll: the results it can return
CollectAll(inventory, usage) ==
    IF inventory.err THEN {[metrics |-> <<>>, err |-> TRUE]}
    ELSE {[metrics |-> [i \in DOMAIN inventory.value |->
                           Enrich(inventory.value[f[i]], usage)],
           err |-> FALSE] : f \in Orders(Len(inventory.value))}

\* Calculator.GenerateSummary and Optimizer.GenerateRecommendations are functions
\* of the snapshot; each result is identified by the snapshot it was made from
GenerateSummary(ms) == [summaryOf |-> ms]

GenerateRecommendations(ms) == [recommendationsOf |-> ms]

Outcome(x) == IF x.err THEN "err" ELSE "ok"

\* Server.reconcile, one refresh cycle. prev keeps the cache and the controller's
\* policy set as the last cycle without any upstream failure left them.
ServerReconcile ==
    /\ ticks < MaxCycles
    /\ \E inventory \in InventoryOutcomes, usage \in UsageOutcomes, listed \in PolicyOutcomes :
         \E r \in CollectAll(inventory, usage) :
            LET policies == IF listed.err THEN <<>> ELSE listed.value
                failed   == inventory.err \/ usage.err \/ listed.err
            IN  /\ inventory.err => usage.err /\ listed.err
                /\ upstream' = [inventory |-> Outcome(inventory),
                                usage     |-> IF r.err THEN "unused" ELSE Outcome(usage),
                                policies  |-> IF r.err THEN "unused" ELSE Outcome(listed)]
                /\ IF r.err
                   THEN UNCHANGED <<store, engine>>
                   ELSE /\ store' = [Metrics         |-> r.metrics,
                                     Summary         |-> GenerateSummary(r.metrics),
                                     Recommendations |-> GenerateRecommendations(r.metrics),
                                     Policies        |-> policies,
                                     LastUpdate      |-> now]
                        /\ engine' = [policies |-> policies]
                /\ prev' = IF failed THEN prev ELSE [store |-> store', engine |-> engine']
    /\ ticks' = ticks + 1
    /\ now' = now + RefreshInterval
    /\ UNCHANGED <<manager, pc, metrics, idx, trace, log, cluster, tsdb, watch, pureVars,
                   lockVars, startVars, collVars>>

InitServer ==
    /\ store = EmptyStore /\ upstream = NIL /\ engine = NIL /\ LockQuiet
    /\ prev = [store |-> EmptyStore, engine |-> NIL]
    /\ now = 1 /\ ticks = 0
    /\ manager = NIL /\ pc = "idle" /\ metrics = <<>> /\ idx = 0 /\ trace = <<>>
    /\ log = <<>> /\ cluster = <<>> /\ tsdb = NIL /\ watch = 0
    /\ PureQuiet /\ StartQuiet /\ CollQuiet

NextServer == ServerReconcile

SpecServer == InitServer /\ [][NextServer]_vars

\* ---------------------------------------------------------------- CollectAll's worker pool
MaxPVCs == 2        \* most resources enumerated by one collection

\* numWorkers as it would be without the ceiling of 50
NumWorkersNoCeiling(numPVCs) ==
    IF numPVCs > 0
    THEN LET n == numPVCs \div 20
         IN  IF n < 5 THEN 5 ELSE n
    ELSE 10

\* numWorkers: numPVCs / 20 kept within 5..50, 10 when nothing is enumerated
NumWorkers(numPVCs) ==
    IF numPVCs > 0
    THEN LET n == numPVCs \div 20
         IN  IF n < 5 THEN 5 ELSE IF n > 50 THEN 50 ELSE n
    ELSE 10

\* fmt.Sprintf("%d", n) for n >= 0
RECURSIVE Itoa(_)
Itoa(n) ==
    LET d == CHOOSE c \in DecimalDigits : DigitVal(c) = n % 10
    IN  IF n < 10 THEN <<d>> ELSE Append(Itoa(n \div 10), d)

\* fmt.Sprintf("%s/%s", namespace, name), the key of the relationship map
PodKey(ns, name) == <<ns, "/", name>>

\* what initializePVCMetric makes of an enumerated resource: the lifecycle
\* fields and the enrichment fields at their zero values
BaseMetric(item) ==
    [LastAccessedAt |-> 0, MountedPods |-> <<>>] @@ item

\* CorrelateEgress on a slice: the slice's elements afterwards. The correlation
\* key of a resource is its namespace.
CorrelateEgress(ms, egressData) ==
    [i \in DOMAIN ms |->
        IF ms[i].Namespace \in DOMAIN egressData
        THEN [ms[i] EXCEPT
                !.EgressBytes = egressData[ms[i].Namespace],
                !.Labels = ("cloudvault.io/egress-bytes"
                              :> Itoa(egressData[ms[i].Namespace])) @@ @]
        ELSE ms[i]]

\* One worker's enrichment of a resource from the pre-fetched lookups. The
\* egress call is made on []types.PVCMetric{*metric}, a slice holding a copy of
\* the metric: of what CorrelateEgress writes only the entry put into the
\* Labels map, which the copy shares, reaches the metric.
WorkerEnrich(item, lookups) ==
    LET m0     == BaseMetric(item)
        key    == PodKey(item.Namespace, item.Name)
        m1     == IF key \in DOMAIN lookups.pods
                  THEN [m0 EXCEPT !.MountedPods = lookups.pods[key]] ELSE m0
        hasUse == /\ lookups.usage # NIL
                  /\ item.Namespace \in DOMAIN lookups.usage
                  /\ item.Name \in DOMAIN lookups.usage[item.Namespace]
        u      == lookups.usage[item.Namespace][item.Name]
        m2     == IF hasUse
                  THEN [m1 EXCEPT !.UsedBytes = u.UsedBytes,
                                  !.LastAccessedAt = u.LastActivity]
                  ELSE m1
        copy   == CorrelateEgress(<<m2>>, lookups.egress)[1]
    IN  IF lookups.egress # NIL THEN [m2 EXCEPT !.Labels = copy.Labels] ELSE m2

\* the enumerated resources
Roster ==
    <<Listed("data-prod", "production", EmptyMap, "gp3"),
      Listed("data-db", "staging", AppPostgres, "standard"),
      Listed("logs", "production", EmptyMap, "sc1")>>

NoPods == [k \in {} |-> <<>>]

\* the pre-fetched lookups: nothing (no usage client, no egress provider, no
\* pod mounts it), usage only, or all three
LookupSets ==
    LET usage  == [ns \in {"production"} |->
                      [n \in {"data-prod"} |-> [UsedBytes |-> 10 * GiB, LastActivity |-> 5 * Day]]]
        pods   == [k \in {PodKey("production", "data-prod")} |-> <<"api-0", "api-1">>]
        egress == [k \in {"production"} |-> 500]
    IN  {[usage |-> NIL,   pods |-> NoPods, egress |-> NIL],
         [usage |-> usage, pods |-> NoPods, egress |-> NIL],
         [usage |-> usage, pods |-> pods,   egress |-> egress]}

NumPVCs == Len(arg.pvcs)

\* CollectAll from the worker-pool settings on: nothing enumerated returns at
\* once; otherwise the workers are started on the empty jobs channel
InitCollect ==
    /\ arg \in [pvcs    : {SubSeq(Roster, 1, n) : n \in 0..MaxPVCs},
                lookups : LookupSets]
    /\ cpc = [at |-> IF Len(arg.pvcs) = 0 THEN "done" ELSE "enqueue", i |-> 0]
    /\ ret = IF Len(arg.pvcs) = 0 THEN [metrics |-> <<>>, err |-> FALSE] ELSE NIL
    /\ workers = IF Len(arg.pvcs) = 0 THEN <<>>
                 ELSE [w \in 1..NumWorkers(Len(arg.pvcs)) |-> [st |-> "idle"]]
    /\ jobs = <<>> /\ results = <<>> /\ collected = <<>>
    /\ StartQuiet
    /\ CtrlQuiet /\ ServerQuiet

collectRest == <<ctrlVars, serverVars, supplied, arg>>

\* make(chan *corev1.PersistentVolumeClaim, numPVCs)
JobsCap == NumPVCs

\* the results channel as it would be with room for one metric fewer
ResultsCapShort == NumPVCs - 1

\* make(chan *types.PVCMetric, numPVCs)
ResultsCap == NumPVCs

\* jobs <- &pvcs.Items[i], which waits while the channel is full, and
\* close(jobs) after the last one
Enqueue ==
    /\ cpc.at = "enqueue" /\ Len(jobs) < JobsCap
    /\ jobs' = Append(jobs, cpc.i + 1)
    /\ cpc' = [at |-> IF cpc.i + 1 = NumPVCs THEN "collect" ELSE "enqueue", i |-> cpc.i + 1]
    /\ UNCHANGED <<results, workers, collected, ctxDone, ret, collectRest>>

\* a worker receives the next job and looks at ctx.Done(): cancelled, it
\* returns with the job unprocessed
WorkerReceive(w) ==
    /\ workers[w].st = "idle" /\ jobs # <<>>
    /\ jobs' = Tail(jobs)
    /\ workers' = [workers EXCEPT ![w] = IF ctxDone THEN [st |-> "exited"]
                                       ELSE [st |-> "busy", job |-> Head(jobs)]]
    /\ UNCHANGED <<cpc, results, collected, ctxDone, ret, collectRest>>

\* the worker enriches the resource and sends the metric, waiting while the
\* results channel is full
WorkerSend(w) ==
    /\ workers[w].st = "busy" /\ Len(results) < ResultsCap
    /\ results' = Append(results, WorkerEnrich(arg.pvcs[workers[w].job], arg.lookups))
    /\ workers' = [workers EXCEPT ![w] = [st |-> "idle"]]
    /\ UNCHANGED <<cpc, jobs, collected, ctxDone, ret, collectRest>>

\* range jobs ends: the channel is closed and drained
WorkerExit(w) ==
    /\ workers[w].st = "idle" /\ jobs = <<>> /\ cpc.at # "enqueue"
    /\ workers' = [workers EXCEPT ![w] = [st |-> "exited"]]
    /\ UNCHANGED <<cpc, jobs, results, collected, ctxDone, ret, collectRest>>

\* the collecting select takes a result; after the numPVCs-th it returns the list
CollectResult ==
    /\ cpc.at = "collect" /\ results # <<>>
    /\ results' = Tail(results)
    /\ collected' = Append(collected, Head(results))
    /\ IF Len(collected) + 1 = NumPVCs
       THEN cpc' = [cpc EXCEPT !.at = "done"] /\ ret' = [metrics |-> collected', err |-> FALSE]
       ELSE UNCHANGED <<cpc, ret>>
    /\ UNCHANGED <<jobs, workers, ctxDone, collectRest>>

\* the abort as it would be if it handed back what it had drained so far
CollectAbortPartial ==
    /\ cpc.at = "collect" /\ ctxDone
    /\ cpc' = [cpc EXCEPT !.at = "done"]
    /\ ret' = [metrics |-> collected, err |-> TRUE]
    /\ UNCHANGED <<jobs, results, workers, collected, ctxDone, collectRest>>

\* the collecting select takes ctx.Done(): return nil, ctx.Err()
CollectAbort ==
    /\ cpc.at = "collect" /\ ctxDone
    /\ cpc' = [cpc EXCEPT !.at = "done"]
    /\ ret' = [metrics |-> <<>>, err |-> TRUE]
    /\ UNCHANGED <<jobs, results, workers, collected, ctxDone, collectRest>>

\* the caller cancels the context
CancelCollect ==
    /\ cpc.at \in {"enqueue", "collect"} /\ ~ctxDone
    /\ ctxDone' = TRUE
    /\ UNCHANGED <<cpc, jobs, results, workers, collected, ret, collectRest>>

NextCollect ==
    \/ Enqueue
    \/ \E w \in DOMAIN workers : WorkerReceive(w)
    \/ \E w \in DOMAIN workers : WorkerSend(w)
    \/ \E w \in DOMAIN workers : WorkerExit(w)
    \/ CollectResult
    \/ CollectAbort
    \/ CancelCollect

SpecCollect == InitCollect /\ [][NextCollect]_vars

\* ---- CollectAll with its goroutines scheduled
\* The moves of the goroutines as seen on the variable each changes.
EnqueueAdvances ==
    /\ cpc.at = "enqueue" /\ Len(jobs) < JobsCap
    /\ cpc' = [at |-> IF cpc.i + 1 = NumPVCs THEN "collect" ELSE "enqueue", i |-> cpc.i + 1]

CollectAdvances ==
    cpc.at = "collect" /\ results # <<>> /\ collected' = Append(collected, Head(results))

AbortTaken ==
    cpc.at = "collect" /\ ctxDone /\ cpc' = [cpc EXCEPT !.at = "done"]

SomeReceive ==
    /\ jobs # <<>> /\ \E w \in DOMAIN workers : workers[w].st = "idle"
    /\ jobs' = Tail(jobs)

WorkerSends(w) ==
    /\ w \in DOMAIN workers
    /\ workers[w].st = "busy" /\ Len(results) < ResultsCap
    /\ workers' = [workers EXCEPT ![w] = [st |-> "idle"]]

WorkerExits(w) ==
    /\ w \in DOMAIN workers
    /\ workers[w].st = "idle" /\ jobs = <<>> /\ cpc.at # "enqueue"
    /\ workers' = [workers EXCEPT ![w] = [st |-> "exited"]]

\* A goroutine that can run is scheduled in the end: the collecting goroutine
\* enqueues, receives a result that is there and takes ctx.Done() once it is
\* closed; a job in the channel is received while a worker waits for one; a
\* worker sends its metric and leaves its range loop when the channel is
\* closed and empty. The cancellation is the caller's and need not happen.
SpecCollectFair ==
    /\ InitCollect /\ [][NextCollect]_vars
    /\ WF_cpc(EnqueueAdvances) /\ WF_collected(CollectAdvances) /\ WF_cpc(AbortTaken)
    /\ WF_jobs(SomeReceive)
    /\ \A w \in 1..NumWorkers(MaxPVCs) :
          WF_workers(WorkerSends(w)) /\ WF_workers(WorkerExits(w))

\* ---------------------------------------------------------------- the two right-sizing analyses on their own
\* checkOversizedVolume as it would be without the 50 GiB floor on the capacity
checkOversizedVolumeAnySize(m) ==
    IF m.UsedBytes = 0 THEN NIL
    ELSE IF m.SizeBytes # 0 => m.UsedBytes * 100 < 20 * m.SizeBytes
    THEN LET wanted == (m.UsedBytes * 3) \div 2
         IN  [Type |-> "resize", PVC |-> m.Name, Namespace |-> m.Namespace,
              RecommendedSize |-> IF wanted < 10 * GiB THEN 10 * GiB ELSE wanted]
    ELSE NIL

\* Optimizer.checkOversizedVolume: the resize finding, NIL for none. It abstains
\* without usage data; otherwise under 20% used of more than 50 GB gives a
\* size of 1.5 times the used bytes, 10 GB at least.
checkOversizedVolume(m) ==
    IF m.UsedBytes = 0 THEN NIL
    ELSE IF (m.SizeBytes # 0 => m.UsedBytes * 100 < 20 * m.SizeBytes) /\ m.SizeBytes > 50 * GiB
    THEN LET wanted == (m.UsedBytes * 3) \div 2
         IN  [Type |-> "resize", PVC |-> m.Name, Namespace |-> m.Namespace,
              RecommendedSize |-> IF wanted < 10 * GiB THEN 10 * GiB ELSE wanted]
    ELSE NIL

\* sizes and usages around the analyses' thresholds
RecommendSizes == {5 * GiB, 20 * GiB, 100 * GiB}

RecommendUsed(size) == {0, GiB \div 2, 2 * GiB, size \div 2}

InitRecommend ==
    /\ arg \in {[pvc |-> PVC("data", "production", EmptyMap, class, 0, size, used, 0),
                 optimizedClass |-> oc] :
                   class \in {"gp3", "standard"}, size \in RecommendSizes,
                   used \in UNION {RecommendUsed(sz) : sz \in RecommendSizes},
                   oc \in DecidePlacement("standard", AvailableClasses)}
    /\ arg.pvc.UsedBytes \in RecommendUsed(arg.pvc.SizeBytes)
    /\ ret = NIL /\ CtrlQuiet /\ ServerQuiet /\ StartQuiet /\ CollQuiet

RecommendCall ==
    /\ ret = NIL
    /\ ret' = [rec       |-> Recommend(arg.pvc, NIL, arg.optimizedClass),
               oversized |-> checkOversizedVolume(arg.pvc)]
    /\ UNCHANGED <<arg, ctrlVars, serverVars, startVars, collVars>>

NextRecommend == RecommendCall

SpecRecommend == InitRecommend /\ [][NextRecommend]_vars

\* ---------------------------------------------------------------- pricing
\* StaticPricingProvider.  Prices are kept exact, in thousandths of a dollar:
\* PerGBMonth 0.08 is 80, PerIOPS 0.005 is 5.

Pricing(perGB, perIOPS, provisioned) ==
    [PerGBMonth |-> perGB, PerIOPS |-> perIOPS, Provisioned |-> provisioned]

\* the zero value of StorageClassPricing, what a Go map yields for a missing key
ZeroPricing == Pricing(0, 0, FALSE)

initializePricing ==
    [k \in {"aws-gp3"} |-> Pricing(80, 5, TRUE)] @@
    [k \in {"aws-gp2"} |-> Pricing(100, 0, FALSE)] @@
    [k \in {"aws-io1", "aws-io2"} |-> Pricing(125, 65, TRUE)] @@
    [k \in {"aws-st1"} |-> Pricing(45, 0, FALSE)] @@
    [k \in {"aws-sc1"} |-> Pricing(25, 0, FALSE)] @@
    [k \in {"gcp-standard", "gcp-pd-standard"} |-> Pricing(40, 0, FALSE)] @@
    [k \in {"gcp-balanced", "gcp-pd-balanced"} |-> Pricing(100, 0, FALSE)] @@
    [k \in {"gcp-ssd", "gcp-pd-ssd"} |-> Pricing(170, 0, FALSE)] @@
    [k \in {"gcp-pd-extreme"} |-> Pricing(125, 50, TRUE)] @@
    [k \in {"azure-standard-hdd"} |-> Pricing(45, 0, FALSE)] @@
    [k \in {"azure-standard-ssd"} |-> Pricing(75, 0, FALSE)] @@
    [k \in {"azure-premium", "azure-managed-premium"} |-> Pricing(120, 0, FALSE)] @@
    [k \in {"azure-premium-v2"} |-> Pricing(80, 5, TRUE)] @@
    [k \in {"azure-ultra"} |-> Pricing(150, 100, TRUE)] @@
    [k \in {"unknown-default"} |-> Pricing(100, 0, FALSE)]

pricingData == initializePricing

PriceKey(provider, name) == provider \o "-" \o name

PriceAt(data, key) == IF key \in DOMAIN data THEN data[key] ELSE ZeroPricing

\* GetPrice: exact key, then "<provider>-default", then "unknown-default"; the
\* region is ignored.
GetPrice(provider, storageClass, region) ==
    IF PriceKey(provider, storageClass) \in DOMAIN pricingData
    THEN pricingData[PriceKey(provider, storageClass)]
    ELSE IF PriceKey(provider, "default") \in DOMAIN pricingData
         THEN pricingData[PriceKey(provider, "default")]
         ELSE PriceAt(pricingData, "unknown-default")

PriceProviders == {"aws", "gcp", "azure", "alibaba", "unknown", ""}

KnownProviders == {"aws", "gcp", "azure"}

PriceClasses ==
    {"gp3", "gp2", "io1", "io2", "st1", "sc1", "standard", "pd-standard", "balanced",
     "pd-balanced", "ssd", "pd-ssd", "pd-extreme", "standard-hdd", "standard-ssd",
     "premium", "premium-v2", "ultra", "managed-premium", "default", "unknown-sc", ""}

PriceRegions == {"us-east-1", "eu-west-1"}

InitPrice ==
    /\ arg \in [provider : PriceProviders, storageClass : PriceClasses, region : PriceRegions]
    /\ ret = NIL /\ CtrlQuiet /\ ServerQuiet /\ StartQuiet /\ CollQuiet

GetPriceCall ==
    /\ ret = NIL
    /\ ret' = GetPrice(arg.provider, arg.storageClass, arg.region)
    /\ UNCHANGED <<arg, ctrlVars, serverVars, startVars, collVars>>

NextPrice == GetPriceCall

SpecPrice == InitPrice /\ [][NextPrice]_vars

\* ---------------------------------------------------------------- cost calculator
\* Calculator over the static pricing table.  Sizes are in MiB and prices in
\* thousandths of a dollar per GiB, so a cost is kept exact in units of
\* 1/(1000 * GiB) dollar: the source's sizeGB * PerGBMonth is
\* SizeBytes * PerGBMonth here, and a per-IOPS charge is scaled by GiB.

Dollars(n) == n * 1000 * GiB

IOPSBaseline == 3000

\* types.PVCMetric, the fields the cost code reads and writes.  LastAccessedAt
\* 0 is the zero time.
CostMetric(name, ns, cid, prov, class, size, riops, wiops, accessed, monthly) ==
    [Name |-> name, Namespace |-> ns, ClusterID |-> cid, Provider |-> prov,
     StorageClass |-> class, SizeBytes |-> size, ReadIOPS |-> riops, WriteIOPS |-> wiops,
     LastAccessedAt |-> accessed, MonthlyCost |-> monthly,
     HourlyCost |-> [num |-> 0, den |-> 1]]

TotalIOPS(p) == p.ReadIOPS + p.WriteIOPS

\* the IOPS charge under the always-charge reading: no Provisioned test, no baseline
IopsCostUnconditional(metric, pricing) == TotalIOPS(metric) * pricing.PerIOPS * GiB

IopsCost(metric, pricing) ==
    IF pricing.Provisioned /\ TotalIOPS(metric) > IOPSBaseline
    THEN (TotalIOPS(metric) - IOPSBaseline) * pricing.PerIOPS * GiB
    ELSE 0

PVCCost(metric, provider) ==
    LET pricing == GetPrice(provider, metric.StorageClass, "us-east-1")
    IN  metric.SizeBytes * pricing.PerGBMonth + IopsCost(metric, pricing)

\* CalculatePVCCost takes a pointer: it returns the cost and leaves it on the
\* metric's MonthlyCost.
CalculatePVCCost(metric, provider) ==
    [cost |-> PVCCost(metric, provider),
     metric |-> [metric EXCEPT !.MonthlyCost = PVCCost(metric, provider)]]

\* EstimateSavings: the current cost is computed on the caller's metric, the new
\* cost on a copy with the new storage class.
EstimateSavings(metric, provider, newStorageClass) ==
    LET current    == CalculatePVCCost(metric, provider)
        testMetric == [current.metric EXCEPT !.StorageClass = newStorageClass]
        new        == CalculatePVCCost(testMetric, provider)
    IN  [savings |-> current.cost - new.cost, metric |-> current.metric]

CostClasses == {"gp3", "gp2", "io1", "standard", "unknown-sc"}

CostSizes == {0, GiB \div 2, 10 * GiB, 100 * GiB}

CostIOPS == {0, 1500, 2000}

CostProviders == {"aws", "gcp", "alibaba"}

InitCost ==
    /\ arg \in {[metric |-> CostMetric("data", "production", "", "", class, size, r, w, 0, mc),
                 provider |-> prov, newStorageClass |-> nc] :
                   class \in CostClasses, size \in CostSizes, r \in CostIOPS, w \in CostIOPS,
                   mc \in {0, Dollars(1)}, prov \in CostProviders, nc \in {"gp2", "sc1", "io1"}}
    /\ ret = NIL /\ CtrlQuiet /\ ServerQuiet /\ StartQuiet /\ CollQuiet

CalculateCall ==
    /\ ret = NIL
    /\ ret' = [op |-> "CalculatePVCCost"] @@ CalculatePVCCost(arg.metric, arg.provider)
    /\ UNCHANGED <<arg, ctrlVars, serverVars, startVars, collVars>>

EstimateSavingsCall ==
    /\ ret = NIL
    /\ ret' = [op |-> "EstimateSavings"]
                @@ EstimateSavings(arg.metric, arg.provider, arg.newStorageClass)
    /\ UNCHANGED <<arg, ctrlVars, serverVars, startVars, collVars>>

NextCost == CalculateCall \/ EstimateSavingsCall

SpecCost == InitCost /\ [][NextCost]_vars

\* ---------------------------------------------------------------- summary and zombies
\* Times are seconds; LastAccessedAt 0 is the zero time.Time, a known access
\* time is positive.  A call reads the clock once (t).

ZombieDays == 30

HoursPerMonth == 24 * 30

\* PVCMetric.IsZombie without the zero-time test
IsZombieAtNoGuard(p, t) == t - p.LastAccessedAt > ZombieDays * Day

\* PVCMetric.IsZombie, read at clock t
IsZombieAt(p, t) ==
    IF p.LastAccessedAt = 0 THEN FALSE
    ELSE t - p.LastAccessedAt > ZombieDays * Day

\* the "%.0f" rendering of a span in days: nearest whole day, ties to even
RoundDays(span) ==
    LET whole == span \div Day
        rest  == span % Day
    IN  IF 2 * rest > Day \/ (2 * rest = Day /\ whole % 2 = 1) THEN whole + 1 ELSE whole

checkZombieVolume(m, t) ==
    IF m.LastAccessedAt = 0 THEN NIL
    ELSE IF t - m.LastAccessedAt > 30 * Day
    THEN [Type |-> "delete_zombie", PVC |-> m.Name, Namespace |-> m.Namespace,
          UnusedDays |-> RoundDays(t - m.LastAccessedAt),
          RecommendedState |-> "Delete volume", MonthlySavings |-> m.MonthlyCost,
          Impact |-> "low"]
    ELSE NIL

\* m[key] = cost, whatever m[key] was
AddToOverwrite(m, key, cost) ==
    [k \in DOMAIN m \cup {key} |-> IF k = key THEN cost ELSE m[k]]

\* m[key] += cost on a Go map: a missing key counts as 0
AddTo(m, key, cost) ==
    [k \in DOMAIN m \cup {key} |->
        IF k = key THEN (IF key \in DOMAIN m THEN m[key] ELSE 0) + cost ELSE m[k]]

ProviderLabel(m, provider) == IF m.Provider = "" THEN provider ELSE m.Provider

ClusterLabel(m) == IF m.ClusterID = "" THEN "default-cluster" ELSE m.ClusterID

NoCosts == [k \in {} |-> 0]

EmptySummary ==
    [TotalMonthlyCost |-> 0, ByNamespace |-> NoCosts, ByStorageClass |-> NoCosts,
     ByProvider |-> NoCosts, ByCluster |-> NoCosts, TopExpensive |-> <<>>,
     ZombieVolumes |-> <<>>, BudgetLimit |-> 0, ActiveAlerts |-> <<>>]

\* the aggregation loop of GenerateSummary from index i on
RECURSIVE Aggregate(_, _, _, _, _)
Aggregate(ms, provider, t, i, summary) ==
    IF i > Len(ms) THEN [metrics |-> ms, summary |-> summary]
    ELSE LET cost == CalculatePVCCost(ms[i], provider).cost
             mi   == [ms[i] EXCEPT !.MonthlyCost = cost,
                                   !.HourlyCost = [num |-> cost, den |-> HoursPerMonth]]
         IN  Aggregate([ms EXCEPT ![i] = mi], provider, t, i + 1,
                 [summary EXCEPT
                    !.TotalMonthlyCost = @ + cost,
                    !.ByNamespace      = AddTo(@, mi.Namespace, cost),
                    !.ByStorageClass   = AddTo(@, mi.StorageClass, cost),
                    !.ByProvider       = AddTo(@, ProviderLabel(mi, provider), cost),
                    !.ByCluster        = AddTo(@, ClusterLabel(mi), cost),
                    !.ZombieVolumes    = IF IsZombieAt(mi, t) THEN Append(@, mi) ELSE @])

\* the inner loop of the top-expensive selection: the first index from j on
\* whose MonthlyCost is strictly above the running maximum's
RECURSIVE MaxIdxFrom(_, _, _)
MaxIdxFrom(ms, j, maxIdx) ==
    IF j > Len(ms) THEN maxIdx
    ELSE MaxIdxFrom(ms, j + 1, IF ms[j].MonthlyCost > ms[maxIdx].MonthlyCost THEN j ELSE maxIdx)

TopCount == 10

\* the selection as it would be without the swap: the maximum of the remainder
\* is appended and stays in the remainder
RECURSIVE SelectTopNoSwap(_, _, _)
SelectTopNoSwap(ms, i, top) ==
    IF i > TopCount \/ i > Len(ms) THEN [metrics |-> ms, top |-> top]
    ELSE SelectTopNoSwap(ms, i + 1, Append(top, ms[MaxIdxFrom(ms, i + 1, i)]))

\* the selection loop from index i on: the remainder's most expensive entry is
\* swapped to position i and appended to the top list
RECURSIVE SelectTop(_, _, _)
SelectTop(ms, i, top) ==
    IF i > TopCount \/ i > Len(ms) THEN [metrics |-> ms, top |-> top]
    ELSE LET maxIdx  == MaxIdxFrom(ms, i + 1, i)
             swapped == [ms EXCEPT ![i] = ms[maxIdx], ![maxIdx] = ms[i]]
         IN  SelectTop(swapped, i + 1, Append(top, swapped[i]))

\* Calculator.GenerateSummary in full, read at clock t: the summary, and the caller's slice as the call leaves it
GenerateSummaryAt(ms, provider, t) ==
    LET agg == Aggregate(ms, provider, t, 1, EmptySummary)
        sel == SelectTop(agg.metrics, 1, <<>>)
    IN  [summary |-> [agg.summary EXCEPT !.TopExpensive = sel.top], metrics |-> sel.metrics]

MaxMetrics == 2

SummaryNow == 100 * Day

\* access times around the threshold: unset, 40 days, exactly 30 days, 30 days
\* and a second, 20 days, an hour ago
AccessTimes ==
    {0, SummaryNow - 40 * Day, SummaryNow - 30 * Day, SummaryNow - 30 * Day - 1,
     SummaryNow - 20 * Day, SummaryNow - Hour}

SummaryPool ==
    {CostMetric("pvc-1", "default", "", "", "gp3", 100 * GiB, 0, 0, at, 0) :
        at \in AccessTimes}
    \cup {CostMetric("pvc-2", "production", "", "gcp", "standard", 200 * GiB, 0, 0, at, 0) :
        at \in AccessTimes}
    \cup {CostMetric("pvc-3", "default", "cluster-b", "", "io1", 10 * GiB, 3000, 1000, at,
                     Dollars(1)) : at \in AccessTimes}

RECURSIVE MetricLists(_)
MetricLists(n) ==
    IF n = 0 THEN {<<>>}
    ELSE MetricLists(n - 1)
         \cup {Append(l, m) : l \in {x \in MetricLists(n - 1) : Len(x) = n - 1}, m \in SummaryPool}

InitSummary ==
    /\ arg \in [metrics : MetricLists(MaxMetrics), provider : {"aws", ""}, now : {SummaryNow}]
    /\ ret = NIL /\ CtrlQuiet /\ ServerQuiet /\ StartQuiet /\ CollQuiet

SummaryCall ==
    /\ ret = NIL
    /\ ret' = [op |-> "GenerateSummary"] @@ GenerateSummaryAt(arg.metrics, arg.provider, arg.now)
    /\ UNCHANGED <<arg, ctrlVars, serverVars, startVars, collVars>>

IsZombieCall ==
    /\ ret = NIL
    /\ ret' = [op |-> "IsZombie",
               zombie |-> [i \in DOMAIN arg.metrics |-> IsZombieAt(arg.metrics[i], arg.now)]]
    /\ UNCHANGED <<arg, ctrlVars, serverVars, startVars, collVars>>

CheckZombieCall ==
    /\ ret = NIL
    /\ ret' = [op |-> "checkZombieVolume",
               recs |-> [i \in DOMAIN arg.metrics |->
                            checkZombieVolume(arg.metrics[i], arg.now)]]
    /\ UNCHANGED <<arg, ctrlVars, serverVars, startVars, collVars>>

NextSummary == SummaryCall \/ IsZombieCall \/ CheckZombieCall

SpecSummary == InitSummary /\ [][NextSummary]_vars

\* ---------------------------------------------------------------- optimizer detectors
\* Optimizer's detectors on one metric.  Savings are costs, in the unit of
\* Dollars; a finding is a types.Recommendation.

\* PVCMetric with the fields the detectors read beyond the cost fields
OptMetric(name, prov, region, class, size, used, riops, accessed, monthly) ==
    [UsedBytes |-> used, Region |-> region]
        @@ CostMetric(name, "default", "", prov, class, size, riops, 0, accessed, monthly)

\* the class names a prefixed storage class may carry after its provider prefix
BaseClasses ==
    {"gp3", "gp2", "io1", "io2", "st1", "sc1", "standard", "pd-standard", "balanced",
     "pd-balanced", "ssd", "pd-ssd", "premium", "managed-premium"}

\* len(sc) > len(prefix) && sc[:len(prefix)] == prefix
HasPrefix(sc, prefix) == \E rest \in BaseClasses : sc = prefix \o rest

\* sc[len(prefix):] when sc carries the prefix, sc otherwise
TrimPrefix(sc, prefix) ==
    IF HasPrefix(sc, prefix) THEN CHOOSE rest \in BaseClasses : sc = prefix \o rest ELSE sc

\* the AWS switch as it would be without IOPS thresholds on gp2/gp3
AwsTargetAlwaysCold(sc, totalIOPS) ==
    IF sc \in {"gp3", "gp2"} THEN "sc1"
    ELSE IF sc \in {"io1", "io2"} /\ totalIOPS < 3000 THEN "gp3"
    ELSE ""

\* the AWS switch: the target class, "" for none
AwsTarget(sc, totalIOPS) ==
    IF sc \in {"gp3", "gp2"}
    THEN IF totalIOPS < 500 THEN "sc1" ELSE IF totalIOPS < 1000 THEN "st1" ELSE ""
    ELSE IF sc \in {"io1", "io2"} /\ totalIOPS < 3000 THEN "gp3"
    ELSE ""

GcpTarget(sc, totalIOPS) ==
    IF sc \in {"pd-ssd", "ssd"} /\ totalIOPS < 1000 THEN "pd-balanced"
    ELSE IF sc \in {"pd-balanced", "balanced"} /\ totalIOPS < 500 THEN "pd-standard"
    ELSE ""

AzureTarget(sc, totalIOPS) ==
    IF sc \in {"premium", "managed-premium"} /\ totalIOPS < 1000 THEN "standard" ELSE ""

\* the three provider blocks in turn; each works on [sc, target] as the block
\* before left them, and a block that finds nothing keeps the target
AwsBlock(st, provider, totalIOPS) ==
    IF provider = "aws" \/ (provider = "unknown" /\ HasPrefix(st.sc, "aws-"))
    THEN [sc |-> TrimPrefix(st.sc, "aws-"),
          target |-> AwsTarget(TrimPrefix(st.sc, "aws-"), totalIOPS)]
    ELSE st

GcpBlock(st, provider, totalIOPS) ==
    IF (provider = "gcp" /\ st.target = "") \/ (provider = "unknown" /\ HasPrefix(st.sc, "gcp-"))
    THEN [sc |-> TrimPrefix(st.sc, "gcp-"),
          target |-> IF GcpTarget(TrimPrefix(st.sc, "gcp-"), totalIOPS) # ""
                     THEN GcpTarget(TrimPrefix(st.sc, "gcp-"), totalIOPS) ELSE st.target]
    ELSE st

AzureBlock(st, provider, totalIOPS) ==
    IF (provider = "azure" /\ st.target = "")
         \/ (provider = "unknown" /\ HasPrefix(st.sc, "azure-"))
    THEN [sc |-> TrimPrefix(st.sc, "azure-"),
          target |-> IF AzureTarget(TrimPrefix(st.sc, "azure-"), totalIOPS) # ""
                     THEN AzureTarget(TrimPrefix(st.sc, "azure-"), totalIOPS) ELSE st.target]
    ELSE st

TargetClassOf(m, provider) ==
    AzureBlock(GcpBlock(AwsBlock([sc |-> m.StorageClass, target |-> ""],
                                 provider, TotalIOPS(m)),
                        provider, TotalIOPS(m)),
               provider, TotalIOPS(m)).target

\* the provider inferred from the class prefix when the caller's is "unknown"
EffectiveProvider(m, provider) ==
    IF provider # "unknown" THEN provider
    ELSE IF HasPrefix(m.StorageClass, "aws-") THEN "aws"
    ELSE IF HasPrefix(m.StorageClass, "gcp-") THEN "gcp"
    ELSE IF HasPrefix(m.StorageClass, "azure-") THEN "azure"
    ELSE provider

determineImpact(currentIOPS, targetClass) ==
    IF targetClass \in {"sc1", "st1", "pd-standard"}
    THEN IF currentIOPS > 100 THEN "medium" ELSE "low"
    ELSE IF targetClass \in {"gp3", "pd-balanced", "standard"}
    THEN IF currentIOPS > 2000 THEN "medium" ELSE "low"
    ELSE "low"

\* the least the savings must exceed: 0.50 a month
MinSavings == Dollars(1) \div 2

\* the tail of checkStorageClassOptimization for a target class found: the
\* finding and the metric as EstimateSavings leaves it
StorageClassFinding(m, provider, target) ==
    [rec |-> IF EstimateSavings(m, EffectiveProvider(m, provider), target).savings > MinSavings
             THEN [Type |-> "storage_class", PVC |-> m.Name, Namespace |-> m.Namespace,
                   CurrentState |-> m.StorageClass, RecommendedState |-> target,
                   MonthlySavings |->
                       EstimateSavings(m, EffectiveProvider(m, provider), target).savings,
                   Impact |-> determineImpact(TotalIOPS(m), target)]
             ELSE NIL,
     metric |-> EstimateSavings(m, EffectiveProvider(m, provider), target).metric]

\* checkStorageClassOptimization on a pointer: [rec, metric], rec NIL for nil,
\* metric what the call leaves behind (the cost is computed on it first)
checkStorageClassOptimization(m, provider) ==
    IF TargetClassOf(m, provider) # ""
    THEN StorageClassFinding(CalculatePVCCost(m, provider).metric, provider,
                             TargetClassOf(m, provider))
    ELSE [rec |-> NIL, metric |-> CalculatePVCCost(m, provider).metric]

\* CalculateEgressCost for whole MiB: free within a region, 0.02 a GiB between
\* regions of one cloud, 0.09 a GiB between clouds
CalculateEgressCost(bytes, srcCloud, srcRegion, dstCloud, dstRegion) ==
    IF srcCloud = dstCloud /\ srcRegion = dstRegion THEN 0
    ELSE IF srcCloud = dstCloud THEN bytes * 20
    ELSE bytes * 90

\* checkCrossCloudMigration: the finding, NIL for nil
checkCrossCloudMigration(m) ==
    IF m.Provider = "" \/ m.Region = "" THEN NIL
    ELSE IF m.Provider = "aws" /\ m.MonthlyCost > Dollars(50)
    THEN LET gcpPrice == GetPrice("gcp", "pd-standard", "us-central1")
             savings  == m.MonthlyCost
                           - (m.SizeBytes * gcpPrice.PerGBMonth
                                + TotalIOPS(m) * gcpPrice.PerIOPS * GiB)
         IN  IF savings > Dollars(10)
                  /\ savings * 3 > CalculateEgressCost(m.SizeBytes, m.Provider, m.Region,
                                                       "gcp", "us-central1")
             THEN [Type |-> "move_cloud", PVC |-> m.Name, Namespace |-> m.Namespace,
                   RecommendedState |-> "gcp (us-central1)", MonthlySavings |-> savings,
                   Impact |-> "high"]
             ELSE NIL
    ELSE NIL

\* the resize finding of checkOversizedVolume with its savings: the current
\* cost less the cost of the recommended size at the same cost per unit of
\* capacity (exact when the cost is a whole multiple of the size in MiB)
OversizedFinding(m) ==
    IF checkOversizedVolume(m) = NIL THEN NIL
    ELSE checkOversizedVolume(m)
           @@ [MonthlySavings |->
                   m.MonthlyCost
                     - (m.MonthlyCost \div m.SizeBytes) * checkOversizedVolume(m).RecommendedSize,
               Impact |-> "medium"]

\* ---- the detectors called one at a time
DetectClasses == {"gp3", "gp2", "io1", "io2", "aws-gp3", "pd-ssd", "gcp-ssd", "premium", "standard"}

DetectProviders == {"aws", "gcp", "azure", "unknown"}

\* total IOPS on both sides of every threshold of the decision tables
DetectIOPS == {100, 499, 500, 999, 1000, 2999, 3000, 5000}

DetectSizes == {5 * GiB, 50 * GiB, 100 * GiB, 200 * GiB, 1000 * GiB}

DetectUsed == {0, 5 * GiB, 10 * GiB, 20 * GiB}

\* where the metric says it runs: nowhere, AWS with and without a region
DetectPlaces ==
    {[Provider |-> "", Region |-> ""], [Provider |-> "aws", Region |-> "us-east-1"],
     [Provider |-> "aws", Region |-> ""]}

InitDetect ==
    /\ arg \in {[m |-> OptMetric("data", pl.Provider, pl.Region, class, size, used, iops, 0, mc),
                 provider |-> prov] :
                   pl \in DetectPlaces, class \in DetectClasses, size \in DetectSizes,
                   used \in DetectUsed, iops \in DetectIOPS, mc \in {0, Dollars(100)},
                   prov \in DetectProviders}
    /\ arg.m.UsedBytes <= arg.m.SizeBytes
    /\ ret = NIL /\ CtrlQuiet /\ ServerQuiet /\ StartQuiet /\ CollQuiet

StorageClassCall ==
    /\ ret = NIL
    /\ ret' = [op |-> "checkStorageClassOptimization"]
                @@ checkStorageClassOptimization(arg.m, arg.provider)
    /\ UNCHANGED <<arg, ctrlVars, serverVars, startVars, collVars>>

OversizedCall ==
    /\ ret = NIL
    /\ ret' = [op |-> "checkOversizedVolume", rec |-> OversizedFinding(arg.m), metric |-> arg.m]
    /\ UNCHANGED <<arg, ctrlVars, serverVars, startVars, collVars>>

CrossCloudCall ==
    /\ ret = NIL
    /\ ret' = [op |-> "checkCrossCloudMigration", rec |-> checkCrossCloudMigration(arg.m),
               metric |-> arg.m]
    /\ UNCHANGED <<arg, ctrlVars, serverVars, startVars, collVars>>

NextDetect == StorageClassCall \/ OversizedCall \/ CrossCloudCall

SpecDetect == InitDetect /\ [][NextDetect]_vars

\* ---------------------------------------------------------------- GenerateRecommendations
\* LSTMCell.PredictNextCost on the fixed trend {0.1, 0.2, 0.15} with the
\* pre-trained weights: 0.0901..., in thousandths
GrowthPermille == 90

\* futureCost > MonthlyCost * 1.2 for futureCost = MonthlyCost * (1 + growth):
\* the sign of MonthlyCost * (growth - 0.2)
PredictedToGrow(monthlyCost) ==
    \/ monthlyCost > 0 /\ GrowthPermille > 200
    \/ monthlyCost < 0 /\ GrowthPermille < 200

PlacementClasses == <<"gp3", "sc1", "st1">>

AsList(rec) == IF rec = NIL THEN <<>> ELSE <<rec>>

\* the right-sizing step of the loop: the finding, marked high impact when the
\* cost is predicted to grow by more than 20%
OversizedStep(m) ==
    IF OversizedFinding(m) # NIL /\ PredictedToGrow(m.MonthlyCost)
    THEN <<[OversizedFinding(m) EXCEPT !.Impact = "high"]>>
    ELSE AsList(OversizedFinding(m))

\* the placement step: a finding for a gp2 resource the agent would place elsewhere
PlacementStep(m, bestClass) ==
    IF bestClass # m.StorageClass /\ m.StorageClass = "gp2"
    THEN <<[Type |-> "ai_placement", PVC |-> m.Name, Namespace |-> m.Namespace,
            CurrentState |-> m.StorageClass, RecommendedState |-> bestClass,
            MonthlySavings |-> Dollars(5) \div 2, Impact |-> "low"]>>
    ELSE <<>>

\* one iteration of the loop of GenerateRecommendations, bestClass being
\* DecidePlacement's answer: the findings appended, in order, and the metric
\* as the iteration leaves it.  sc is checkStorageClassOptimization's result.
IterationWith(m, sc, t, bestClass) ==
    [recs   |-> AsList(checkZombieVolume(m, t)) \o AsList(sc.rec)
                  \o OversizedStep(sc.metric) \o PlacementStep(sc.metric, bestClass),
     metric |-> sc.metric]

Iteration(m, provider, t, bestClass) ==
    IterationWith(m, checkStorageClassOptimization(m, provider), t, bestClass)

\* the loop from index i on, best[i] being DecidePlacement's answer in iteration i
RECURSIVE Findings(_, _, _, _, _)
Findings(ms, provider, t, best, i) ==
    IF i > Len(ms) THEN <<>>
    ELSE Iteration(ms[i], provider, t, best[i]).recs \o Findings(ms, provider, t, best, i + 1)

\* the sort as it would be if it kept one finding for each savings value
RECURSIVE SortedOrdersDedup(_, _)
SortedOrdersDedup(recs, left) ==
    IF left = {} THEN {<<>>}
    ELSE LET top == {i \in left : \A j \in left : recs[i].MonthlySavings >= recs[j].MonthlySavings}
         IN  UNION {{<<recs[i]>> \o rest : rest \in SortedOrdersDedup(recs, left \ top)} :
                        i \in top}

\* sort.Slice by MonthlySavings, highest first: the orders it may leave the
\* findings at the indices left in; findings of equal savings come in any order
RECURSIVE SortedOrders(_, _)
SortedOrders(recs, left) ==
    IF left = {} THEN {<<>>}
    ELSE LET top == {i \in left : \A j \in left : recs[i].MonthlySavings >= recs[j].MonthlySavings}
         IN  UNION {{<<recs[i]>> \o rest : rest \in SortedOrders(recs, left \ {i})} :
                        i \in top}

\* Optimizer.GenerateRecommendations read at clock t: the lists it may return
GenerateRecommendationsAt(ms, provider, t) ==
    UNION {SortedOrders(Findings(ms, provider, t, best, 1),
                        DOMAIN Findings(ms, provider, t, best, 1)) :
             best \in [DOMAIN ms -> DecidePlacement("standard_workload", PlacementClasses)]}

\* the caller's slice as the loop leaves it: each metric carries the cost
\* checkStorageClassOptimization computed on it
FleetAfter(ms, provider) ==
    [i \in DOMAIN ms |-> checkStorageClassOptimization(ms[i], provider).metric]

MaxFleet == 2

\* the fleet of TestOptimizer_GenerateRecommendations (a resource unused for 40
\* days, a 200 GiB resource at 5%), and resources at the detectors' thresholds
FleetPool ==
    {OptMetric("zombie-pvc", "", "", "gp3", 100 * GiB, 0, 0, SummaryNow - 40 * Day, Dollars(8)),
     OptMetric("oversized-pvc", "", "", "gp3", 200 * GiB, 10 * GiB, 0, 0, Dollars(16)),
     OptMetric("aws-pvc", "aws", "us-east-1", "gp2", 1000 * GiB, 0, 5000, 0, Dollars(100)),
     OptMetric("io-pvc", "", "", "io1", 100 * GiB, 50 * GiB, 500, 0, 0),
     OptMetric("small-pvc", "", "", "gp3", 5 * GiB, GiB, 100, 0, 0),
     OptMetric("floor-pvc", "", "", "st1", 50 * GiB, 5 * GiB, 0, SummaryNow - 30 * Day, 0),
     OptMetric("fifth-pvc", "", "", "gp2", 100 * GiB, 20 * GiB, 100, 0, 0),
     OptMetric("idle-pvc", "", "", "sc1", 100 * GiB, 5 * GiB, 0, 0, 0)}

RECURSIVE Fleets(_)
Fleets(n) ==
    IF n = 0 THEN {<<>>}
    ELSE Fleets(n - 1)
         \cup {Append(l, m) : l \in {x \in Fleets(n - 1) : Len(x) = n - 1}, m \in FleetPool}

InitOptimize ==
    /\ arg \in [metrics : Fleets(MaxFleet), provider : {"aws"}, now : {SummaryNow}]
    /\ ret = NIL /\ CtrlQuiet /\ ServerQuiet /\ StartQuiet /\ CollQuiet

RecommendationsCall ==
    /\ ret = NIL
    /\ \E recs \in GenerateRecommendationsAt(arg.metrics, arg.provider, arg.now) :
          ret' = [op |-> "GenerateRecommendations", recs |-> recs,
                  metrics |-> FleetAfter(arg.metrics, arg.provider)]
    /\ UNCHANGED <<arg, ctrlVars, serverVars, startVars, collVars>>

OversizedEachCall ==
    /\ ret = NIL
    /\ ret' = [op |-> "checkOversizedVolume",
               recs |-> [i \in DOMAIN arg.metrics |-> OversizedFinding(arg.metrics[i])]]
    /\ UNCHANGED <<arg, ctrlVars, serverVars, startVars, collVars>>

CrossCloudEachCall ==
    /\ ret = NIL
    /\ ret' = [op |-> "checkCrossCloudMigration",
               recs |-> [i \in DOMAIN arg.metrics |-> checkCrossCloudMigration(arg.metrics[i])]]
    /\ UNCHANGED <<arg, ctrlVars, serverVars, startVars, collVars>>

NextOptimize == RecommendationsCall \/ OversizedEachCall \/ CrossCloudEachCall

SpecOptimize == InitOptimize /\ [][NextOptimize]_vars

\* ---------------------------------------------------------------- the store's lock
\* Server.reconcile against the readers of the MetricsStore, statement by
\* statement. A cached value is identified by the refresh cycle that computed
\* it, 0 for the zero value NewServer leaves.
Version(n) == [cycle |-> n]

\* what a read overlapping a write of the same field can see besides the old
\* and the new value: a slice header made of parts of both
Torn == [torn |-> TRUE]

ZeroStore ==
    [Metrics |-> Version(0), Summary |-> Version(0), Recommendations |-> Version(0),
     Policies |-> Version(0), LastUpdate |-> Version(0)]

\* the assignment Server.reconcile makes before s.store.Lock()
UnlockedAssignments == <<"Policies">>

\* the assignments it makes between s.store.Lock() and s.store.Unlock()
LockedAssignments == <<"Metrics", "Summary", "Recommendations", "LastUpdate">>

\* the goroutines that read the store: the four handlers and the supplier that
\* Start hands to the orchestrator
Readers == {"handlePVCs", "handleCost", "handleRecommendations", "handlePolicies", "supplier"}

FieldRead(h) ==
    CASE h = "handlePVCs"            -> "Metrics"
      [] h = "handleCost"            -> "Summary"
      [] h = "handleRecommendations" -> "Recommendations"
      [] h = "handlePolicies"        -> "Policies"
      [] h = "supplier"              -> "Metrics"

\* the assignments of the stretch reconcile is in
AssignmentsAt(at) == IF at = "assign" THEN UnlockedAssignments ELSE LockedAssignments

\* the field reconcile is writing right now, "" when it is writing none
FieldWritten ==
    IF rpc.writing THEN AssignmentsAt(rpc.at)[rpc.k] ELSE ""

\* collection, cost enrichment, summary and recommendations; a collection
\* error ends the cycle
RefreshCompute ==
    /\ rpc.at = "idle" /\ ticks < MaxCycles
    /\ ticks' = ticks + 1
    /\ \E err \in BOOLEAN : rpc' = [rpc EXCEPT !.at = IF err THEN "idle" ELSE "fetch"]
    /\ UNCHANGED <<store, mu, hpc, ret>>

\* ListStoragePolicies, ListCostPolicies, governance.SetPolicies
RefreshFetch ==
    /\ rpc.at = "fetch"
    /\ rpc' = [rpc EXCEPT !.at = "assign", !.k = 1]
    /\ UNCHANGED <<store, mu, hpc, ret, ticks>>

\* an assignment to a field of the store begins
BeginWrite ==
    /\ rpc.at \in {"assign", "locked"} /\ ~rpc.writing
    /\ rpc' = [rpc EXCEPT !.writing = TRUE]
    /\ UNCHANGED <<store, mu, hpc, ret, ticks>>

\* and ends; after the last assignment before the lock comes
\* orchestrator.SetPolicies and s.store.Lock(), after the last one under the
\* lock s.store.Unlock()
EndWrite ==
    /\ rpc.writing
    /\ store' = [store EXCEPT ![FieldWritten] = Version(ticks)]
    /\ rpc' = IF rpc.k < Len(AssignmentsAt(rpc.at))
              THEN [rpc EXCEPT !.writing = FALSE, !.k = rpc.k + 1]
              ELSE [at |-> IF rpc.at = "assign" THEN "lock" ELSE "unlock", k |-> 0,
                    writing |-> FALSE]
    /\ UNCHANGED <<mu, hpc, ret, ticks>>

\* RWMutex.Lock announces the writer, which keeps new readers out, ...
StoreLockAnnounce ==
    /\ rpc.at = "lock" /\ ~mu.writer
    /\ mu' = [mu EXCEPT !.pending = TRUE]
    /\ rpc' = [rpc EXCEPT !.at = "waiting"]
    /\ UNCHANGED <<store, hpc, ret, ticks>>

\* ... and returns when the readers that were in have left
StoreLock ==
    /\ rpc.at = "waiting" /\ mu.readers = 0
    /\ mu' = [mu EXCEPT !.pending = FALSE, !.writer = TRUE]
    /\ rpc' = [rpc EXCEPT !.at = "locked", !.k = 1]
    /\ UNCHANGED <<store, hpc, ret, ticks>>

StoreUnlock ==
    /\ rpc.at = "unlock"
    /\ mu' = [mu EXCEPT !.writer = FALSE]
    /\ rpc' = [rpc EXCEPT !.at = "idle"]
    /\ UNCHANGED <<store, hpc, ret, ticks>>

\* s.store.RLock() of a handler or of the supplier
ReaderRLock(h) ==
    /\ hpc[h] = "out" /\ ~mu.writer /\ ~mu.pending
    /\ mu' = [mu EXCEPT !.readers = mu.readers + 1]
    /\ hpc' = [hpc EXCEPT ![h] = "rlocked"]
    /\ UNCHANGED <<store, rpc, ret, ticks>>

\* its read of the field. A read that overlaps a write of the same field is a
\* data race: it can see the old value, the new one or a mix of the two.
ReaderRead(h) ==
    /\ hpc[h] = "rlocked"
    /\ \E v \in IF FieldWritten = FieldRead(h)
                THEN {store[FieldRead(h)], Version(ticks), Torn}
                ELSE {store[FieldRead(h)]} :
          ret' = [reader |-> h, value |-> v]
    /\ hpc' = [hpc EXCEPT ![h] = "read"]
    /\ UNCHANGED <<store, mu, rpc, ticks>>

ReaderRUnlock(h) ==
    /\ hpc[h] = "read"
    /\ mu' = [mu EXCEPT !.readers = mu.readers - 1]
    /\ hpc' = [hpc EXCEPT ![h] = "out"]
    /\ UNCHANGED <<store, rpc, ret, ticks>>

InitLock ==
    /\ store = ZeroStore
    /\ mu = [writer |-> FALSE, readers |-> 0, pending |-> FALSE]
    /\ rpc = [at |-> "idle", k |-> 0, writing |-> FALSE]
    /\ hpc = [h \in Readers |-> "out"]
    /\ ticks = 0 /\ upstream = NIL /\ PureQuiet
    /\ engine = NIL /\ manager = NIL /\ pc = "idle" /\ metrics = <<>> /\ idx = 0
    /\ trace = <<>> /\ log = <<>> /\ prev = NIL /\ now = 0 /\ cluster = <<>>
    /\ tsdb = NIL /\ watch = 0
    /\ StartQuiet /\ CollQuiet

NextLock ==
    /\ \/ RefreshCompute
       \/ RefreshFetch
       \/ BeginWrite
       \/ EndWrite
       \/ StoreLockAnnounce
       \/ StoreLock
       \/ StoreUnlock
       \/ \E h \in Readers : ReaderRLock(h)
       \/ \E h \in Readers : ReaderRead(h)
       \/ \E h \in Readers : ReaderRUnlock(h)
    /\ UNCHANGED <<arg, engine, manager, pc, metrics, idx, trace, log, prev, now, cluster,
                   tsdb, watch, upstream, startVars, collVars>>

SpecLock == InitLock /\ [][NextLock]_vars

\* ---------------------------------------------------------------- CollectAll's pool size
MaxEnumerated == 1100   \* most resources enumerated, past the 1000 that reach the ceiling

\* CollectAll from the worker-pool settings to the last worker started; arg is
\* len(pvcs.Items)
InitPool ==
    /\ arg \in 0..MaxEnumerated /\ ret = NIL
    /\ cpc = [at |-> "settings", i |-> 0]
    /\ jobs = <<>> /\ results = <<>> /\ workers = <<>> /\ collected = <<>>
    /\ StartQuiet /\ CtrlQuiet /\ ServerQuiet

\* numWorkers is computed; nothing enumerated returns the empty list at once
PoolSettings ==
    /\ cpc.at = "settings"
    /\ IF arg = 0
       THEN cpc' = [at |-> "done", i |-> 0] /\ ret' = [metrics |-> <<>>, err |-> FALSE]
       ELSE cpc' = [at |-> "start", i |-> 0] /\ UNCHANGED ret
    /\ UNCHANGED <<arg, jobs, results, workers, collected, ctrlVars, serverVars, startVars>>

\* one turn of the loop that starts the workers; after the last the enqueueing begins
StartWorker ==
    /\ cpc.at = "start"
    /\ workers' = Append(workers, [st |-> "idle"])
    /\ cpc' = [at |-> IF cpc.i + 1 < NumWorkers(arg) THEN "start" ELSE "enqueue",
               i |-> cpc.i + 1]
    /\ UNCHANGED <<arg, ret, jobs, results, collected, ctrlVars, serverVars, startVars>>

NextPool == PoolSettings \/ StartWorker

SpecPool == InitPool /\ [][NextPool]_vars

\* ---------------------------------------------------------------- the top-expensive selection past ten resources
MaxTop == 11        \* most resources summarized, one more than the ten selected

TopNames ==
    <<"pvc-01", "pvc-02", "pvc-03", "pvc-04", "pvc-05", "pvc-06", "pvc-07", "pvc-08",
      "pvc-09", "pvc-10", "pvc-11", "pvc-12", "pvc-13">>

\* capacities of the summarized volumes: gp3 volumes of two costs
TopSizes == {10 * GiB, 30 * GiB}

\* the fleets of n volumes, named by position
TopFleets(n) ==
    {[i \in 1..n |-> CostMetric(TopNames[i], "default", "", "aws", "gp3", size[i], 0, 0, 0, 0)] :
        size \in [1..n -> TopSizes]}

InitTop ==
    /\ \E n \in 0..MaxTop :
          arg \in [metrics : TopFleets(n), provider : {"aws"}, now : {SummaryNow}]
    /\ ret = NIL /\ CtrlQuiet /\ ServerQuiet /\ StartQuiet /\ CollQuiet

TopCall ==
    /\ ret = NIL
    /\ ret' = [op |-> "GenerateSummary"] @@ GenerateSummaryAt(arg.metrics, arg.provider, arg.now)
    /\ UNCHANGED <<arg, ctrlVars, serverVars, startVars, collVars>>

NextTop == TopCall

SpecTop == InitTop /\ [][NextTop]_vars

\* ---------------------------------------------------------------- the control loop with its migrations applied
\* Start's loop with every TriggerMigration request carried out before the
\* next tick: the supplier then reports the resource on the requested class
\* and size.

\* the byte count a FormatQuantity string stands for
QuantityBytes(q) == IF q.unit = "Gi" THEN q.n * GiB ELSE q.n

\* The clock past which no enumerated tier duration remains to be crossed;
\* Evaluate reads the clock only to compare ages with those durations, and
\* Recommend does not read it, so later clocks are not told apart.
Horizon == 30 * Day + Interval

\* reconcile over the snapshot from index i on, the agent answering ocs[i] for
\* the i-th resource: the TriggerMigration calls, in order
RECURSIVE PassCalls(_, _, _, _, _)
PassCalls(policies, ms, ocs, t, i) ==
    IF i > Len(ms) THEN <<>>
    ELSE Calls(ms[i], SelectSeq2(ms[i], Decide(policies, ms[i], ocs[i], t).recs, 1), "ok")
             \o PassCalls(policies, ms, ocs, t, i + 1)

\* the resource after the requests made for it, in order, are carried out
RECURSIVE Migrated(_, _, _)
Migrated(pvc, calls, k) ==
    IF k > Len(calls) THEN pvc
    ELSE Migrated(IF calls[k].Name = pvc.Name
                  THEN [pvc EXCEPT !.StorageClass = calls[k].TargetClass,
                                   !.SizeBytes = QuantityBytes(calls[k].TargetSize)]
                  ELSE pvc,
                  calls, k + 1)

\* resources of the production namespace: half full, over-provisioned, and
\* small and empty
StablePool ==
    {PVC("data-prod", "production", EmptyMap, c, 0, 20 * GiB, 10 * GiB, 0) :
        c \in {"gp3", "standard"}}
    \cup {PVC("data-prod", "production", EmptyMap, "gp3", 0, 20 * GiB, 2 * GiB, 0),
          PVC("data-prod", "production", EmptyMap, "gp3", 0, 5 * GiB, 0, 0)}

\* the ticker fires: the supplier's snapshot is taken and reconcile runs over
\* it; trace keeps the agent's answers of the pass, log its requests
LoopTick ==
    /\ pc = "idle"
    /\ now' = IF now < Horizon THEN now + Interval ELSE now
    /\ metrics' = cluster
    /\ \E ocs \in [DOMAIN cluster -> {AvailableClasses[i] : i \in DOMAIN AvailableClasses}] :
          /\ \A i \in DOMAIN cluster :
                ocs[i] \in DecidePlacement(detectWorkloadType(cluster[i]), AvailableClasses)
          /\ trace' = ocs
          /\ log' = PassCalls(engine.policies, cluster, ocs, now', 1)
    /\ pc' = "migrating"
    /\ UNCHANGED <<engine, manager, idx, prev, cluster, tsdb, watch, ticks, pureVars,
                   serverVars, startVars, collVars>>

\* the requested migrations are carried out before the next tick
MigrationsApplied ==
    /\ pc = "migrating"
    /\ cluster' = [i \in DOMAIN cluster |-> Migrated(cluster[i], log, 1)]
    /\ pc' = "idle"
    /\ UNCHANGED <<engine, manager, metrics, idx, trace, log, prev, now, tsdb, watch, ticks,
                   pureVars, serverVars, startVars, collVars>>

InitStable ==
    /\ engine = [policies |-> <<Policy("policy-ns-prod", <<"production">>, EmptyMap, TestTiers)>>]
    /\ manager = Argo
    /\ pc = "idle" /\ metrics = <<>> /\ idx = 0 /\ trace = <<>> /\ log = <<>> /\ prev = NIL
    /\ now \in {30 * Day - 90, 40 * Day}
    /\ cluster \in {<<p>> : p \in StablePool}
    /\ tsdb = NIL /\ watch = 0 /\ ticks = 0
    /\ PureQuiet /\ ServerQuiet /\ StartQuiet /\ CollQuiet

NextStable == LoopTick \/ MigrationsApplied

\* the loop's two moves as seen on pc alone
TickFires == pc = "idle" /\ pc' = "migrating"

MigrationsDone == pc = "migrating" /\ pc' = "idle"

\* The ticker keeps firing while the context is not cancelled, and by the
\* hypothesis every request is carried out.
SpecStable ==
    InitStable /\ [][NextStable]_vars /\ WF_pc(TickFires) /\ WF_pc(MigrationsDone)

\* ================================================================ claims
\* ---------------------------------------------------------------- C8
\* What the claim calls well-formed, stated on the string itself.
\* A day count: an optional sign, one or more digits, the unit d, nothing else.
IsDayCount(s) ==
    LET first == IF Len(s) > 0 /\ s[1] \in {"+", "-"} THEN 2 ELSE 1
    IN  /\ Len(s) >= first + 1
        /\ s[Len(s)] = "d"
        /\ \A i \in first..(Len(s) - 1) : s[i] \in DecimalDigits

\* Standard syntax: an optional sign, then "0" or a run of <digits><unit> terms
\* with unit h, m or s.
IsStandardDuration(s) ==
    LET first == IF Len(s) > 0 /\ s[1] \in {"+", "-"} THEN 2 ELSE 1
        units == {"h", "m", "s"}
    IN  \/ SubSeq(s, first, Len(s)) = <<"0">>
        \/ /\ Len(s) >= first + 1
           /\ s[first] \in DecimalDigits
           /\ s[Len(s)] \in units
           /\ \A i \in first..Len(s) : s[i] \in DecimalDigits \cup units
           /\ \A i \in first..(Len(s) - 1) : ~(s[i] \in units /\ s[i + 1] \in units)

DayCountValue(s) ==
    LET first == IF s[1] \in {"+", "-"} THEN 2 ELSE 1
        v     == DigitsValue(s, first, Len(s))
    IN  IF s[1] = "-" THEN 0 - v ELSE v

\* C8: ParseDuration maps an integer followed by d to that many times 24 hours
\* ("30d" is 720h, "1d" is 24h), accepts standard syntax ("1h", "30m"), and
\* returns an error and no value for the empty string and for every other string,
\* strings with extra characters around a valid day count included.
C8_MalformedIsAnError ==
    ret # NIL =>
        /\ IsDayCount(arg) => ~ret.err /\ ret.d = DayCountValue(arg) * 24 * Hour
        /\ IsStandardDuration(arg) => ~ret.err
        /\ arg = <<"3", "0", "d">> => ret.d = 720 * Hour
        /\ arg = <<"1", "d">> => ret.d = 24 * Hour
        /\ arg = <<"1", "h">> => ret.d = Hour
        /\ arg = <<"3", "0", "m">> => ret.d = 30 * 60
        /\ ~IsDayCount(arg) /\ ~IsStandardDuration(arg) => ret.err /\ ret.d = 0

\* ---------------------------------------------------------------- C5
SetMax(A) == CHOOSE x \in A : \A y \in A : y <= x
SetMin(A) == CHOOSE x \in A : \A y \in A : x <= y

\* Go indices of the tiers whose duration has elapsed at that age
ElapsedTiers(tiers, age) ==
    {i \in 0..(Len(tiers) - 1) :
        LET d == ParseDuration(tiers[i + 1].Duration) IN ~d.err /\ age > d.d}

MostAdvancedElapsed(tiers, age) ==
    IF ElapsedTiers(tiers, age) = {} THEN 0 - 1 ELSE SetMax(ElapsedTiers(tiers, age))

FirstTierOnClass(tiers, class) ==
    LET on == {i \in 0..(Len(tiers) - 1) : tiers[i + 1].StorageClass = class}
    IN  IF on = {} THEN 0 - 1 ELSE SetMin(on)

\* C5: Evaluate returns the most advanced tier (highest index) whose duration has
\* elapsed since the resource's creation, and only when that index is strictly
\* greater than the index of the first tier on the resource's class (-1 when
\* there is none); in every other case, a failed evaluation included, it returns
\* no tier. For [hot@0s, warm@7d, cold@30d]: 8 days on hot gives warm, 40 days on
\* hot gives cold, 8 days on warm gives none.
C5_EvaluateMostAdvancedForwardTier ==
    ret # NIL =>
        LET tiers == arg.policy.Tiers
            age   == arg.t - arg.pvc.CreatedAt
            m     == MostAdvancedElapsed(tiers, age)
            c     == FirstTierOnClass(tiers, arg.pvc.StorageClass)
        IN  /\ ~ret.err => ret.tier = IF m > c THEN tiers[m + 1] ELSE NIL
            /\ ret.err => ret.tier = NIL
            /\ tiers = TestTiers /\ arg.pvc.StorageClass = "gp3" /\ age = 8 * Day
                 => ret.tier # NIL /\ ret.tier.Name = "warm"
            /\ tiers = TestTiers /\ arg.pvc.StorageClass = "gp3" /\ age = 40 * Day
                 => ret.tier # NIL /\ ret.tier.Name = "cold"
            /\ tiers = TestTiers /\ arg.pvc.StorageClass = "sc1" /\ age = 8 * Day
                 => ret.tier = NIL /\ ~ret.err

\* a resource old enough for cold, still on hot, is sent to cold past warm
C5_Witness ==
    /\ ret # NIL /\ arg.policy.Tiers = TestTiers
    /\ arg.pvc.StorageClass = "gp3" /\ arg.t = 40 * Day
    /\ ret.tier = TestTiers[3]

\* ---------------------------------------------------------------- C6
\* A selector matches iff its namespace list is empty or holds the resource's
\* namespace, and every label constraint is present with an equal value.
SelectorMatches(policy, pvc) ==
    /\ \/ policy.MatchNamespaces = <<>>
       \/ pvc.Namespace \in {policy.MatchNamespaces[i] : i \in DOMAIN policy.MatchNamespaces}
    /\ \A k \in DOMAIN policy.MatchLabels :
          k \in DOMAIN pvc.Labels /\ pvc.Labels[k] = policy.MatchLabels[k]

NsThenLabelPolicies ==
    <<Policy("p1", <<"production">>, EmptyMap, <<>>),
      Policy("p2", <<>>, [k \in {"app"} |-> "postgres"], <<>>)>>

\* C6: Match returns the first policy, in stored order, whose selector matches
\* the resource, and none when no selector matches; so a resource that satisfies
\* only the label policy declared second resolves to it.
C6_MatchFirstInStoredOrder ==
    ret # NIL =>
        LET ps == arg.policies
            M  == {i \in 1..Len(ps) : SelectorMatches(ps[i], arg.pvc)}
        IN  /\ M = {} => ret.policy = NIL
            /\ M # {} => ret.policy = ps[SetMin(M)]
            /\ ps = NsThenLabelPolicies /\ arg.pvc.Namespace = "staging"
                 /\ arg.pvc.Labels = [k \in {"app"} |-> "postgres"]
                 => ret.policy # NIL /\ ret.policy.Name = "p2"

\* the second policy is returned although an earlier and a later policy exist
C6_Witness ==
    /\ ret # NIL /\ arg.policies = NsThenLabelPolicies
    /\ arg.pvc.Namespace = "staging" /\ arg.pvc.Labels = [k \in {"app"} |-> "postgres"]
    /\ ret.policy = NsThenLabelPolicies[2]

\* ---------------------------------------------------------------- C2
\* the (resource, target class, target size) of the requests the handled
\* resources' decisions call for, in order
RECURSIVE Decided(_)
Decided(tr) ==
    IF tr = <<>> THEN <<>>
    ELSE Decided(SubSeq(tr, 1, Len(tr) - 1)) \o
         [k \in 1..Len(tr[Len(tr)].recs) |->
            [Name |-> tr[Len(tr)].Name,
             TargetClass |-> tr[Len(tr)].recs[k].TargetClass,
             TargetSize |-> tr[Len(tr)].recs[k].TargetSize]]

Requested ==
    [k \in DOMAIN log |->
        [Name |-> log[k].Name, TargetClass |-> log[k].TargetClass,
         TargetSize |-> log[k].TargetSize]]

\* C2: in one pass every resource causes at most one migration request: none
\* without a matching policy; exactly the recommender's transition, whatever tier
\* evaluation says, when the recommender returns one; otherwise a request iff
\* tier evaluation returns a forward tier, its target class being that tier's
\* storage class. With a manager configured the requests are TriggerMigration calls.
C2_AtMostOneRequestPerResource ==
    /\ \A i \in DOMAIN trace :
        LET e      == trace[i]
            pvc    == metrics[i]
            policy == Match(e.policies, pvc)
            ev     == Evaluate(pvc, policy, now)
        IN  /\ e.Name = pvc.Name
            /\ Len(e.recs) <= 1
            /\ policy = NIL => e.recs = <<>>
            /\ policy # NIL =>
                 \E oc \in {AvailableClasses[k] : k \in DOMAIN AvailableClasses} :
                    LET rec == Recommend(pvc, policy, oc)
                    IN  IF rec # NIL THEN e.recs = <<rec>>
                        ELSE /\ (e.recs # <<>>) <=> (~ev.err /\ ev.tier # NIL)
                             /\ e.recs # <<>> => e.recs[1].TargetClass = ev.tier.StorageClass
    /\ Requested = IF manager = NIL THEN <<>> ELSE Decided(trace)
    /\ \A j, k \in DOMAIN log : log[j].Name = log[k].Name => j = k

\* a pass in which the recommender's transition was requested for one resource
\* although tier evaluation had another target for it, and no policy matched the other
C2_Witness ==
    /\ pc = "idle" /\ Len(trace) = 2 /\ manager # NIL
    /\ trace[1].path = "ai" /\ Len(log) = 1 /\ log[1].Name = trace[1].Name
    /\ LET ev == Evaluate(metrics[1], Match(trace[1].policies, metrics[1]), now)
       IN  ev.tier # NIL /\ ev.tier.StorageClass # log[1].TargetClass
    /\ trace[2].path = "nomatch"

\* ---------------------------------------------------------------- C3
\* C3: when TriggerMigration fails for a resource the pass goes on: every
\* resource of the snapshot is handled once, in order, the ones after the
\* failure decided as reconcile decides any resource, and no resource is
\* requested twice in the pass.
C3_FailureDoesNotHaltThePass ==
    /\ Len(trace) <= Len(metrics)
    /\ pc = "loop" => Len(trace) = idx - 1
    /\ pc = "idle" /\ trace # <<>> => Len(trace) = Len(metrics)
    /\ \A i \in DOMAIN trace :
        /\ trace[i].Name = metrics[i].Name
        /\ (\E f \in 1..(i - 1) : trace[f].result = "err") =>
              \E oc \in {AvailableClasses[k] : k \in DOMAIN AvailableClasses} :
                 LET d == Decide(trace[i].policies, metrics[i], oc, now)
                 IN  trace[i].recs = d.recs /\ trace[i].path = d.path
    /\ \A n \in {metrics[i].Name : i \in DOMAIN metrics} :
          Cardinality({k \in DOMAIN log : log[k].Name = n}) <= 1

\* the first resource's request failed and the second's was made all the same
C3_Witness ==
    /\ pc = "idle" /\ Len(trace) = 2 /\ Len(log) = 2
    /\ log[1].result = "err" /\ log[1].Name = metrics[1].Name
    /\ log[2].result = "ok" /\ log[2].Name = metrics[2].Name

\* ---------------------------------------------------------------- C4 and C1
\* the watched resource has been handled in this pass and in the pass before,
\* reported on the same class and matched against the same policy set
SeenTwice ==
    /\ prev # NIL /\ watch \in DOMAIN trace
    /\ prev.pvc.Name = metrics[watch].Name
    /\ prev.pvc.StorageClass = metrics[watch].StorageClass
    /\ prev.entry.policies = trace[watch].policies

CallsFor(name) == {k \in DOMAIN log : log[k].Name = name}

SameReportedState ==
    /\ SeenTwice
    /\ prev.pvc = metrics[watch]
    /\ prev.entry.policy = trace[watch].policy

\* C1 as stated: while a resource keeps being reported in the state that made it
\* eligible, TriggerMigration is called for it once and not again for the same
\* transition on later ticks.
C1_RequestedOncePerEligibilityChange ==
    SameReportedState /\ prev.entry.result # "none" =>
        ~\E k \in CallsFor(metrics[watch].Name) :
            log[k].TargetClass = prev.entry.recs[1].TargetClass

\* C1 as amended: TriggerMigration is called once per tick for a resource found
\* eligible on that tick, also when the tick before already requested the same
\* transition for the resource in the same state.
C1_RequestedOncePerEligibleTick ==
    watch \in DOMAIN trace /\ manager # NIL =>
        /\ Cardinality(CallsFor(metrics[watch].Name))
              = IF trace[watch].recs # <<>> THEN 1 ELSE 0
        /\ \A k \in CallsFor(metrics[watch].Name) :
              log[k].TargetClass = trace[watch].recs[1].TargetClass

\* the same transition of a resource in an unchanged state was requested on two
\* consecutive ticks, the first request having been accepted
C1_Witness ==
    /\ SameReportedState /\ prev.entry.result = "ok"
    /\ \E k \in CallsFor(metrics[watch].Name) :
          log[k].TargetClass = prev.entry.recs[1].TargetClass

\* ---------------------------------------------------------------- C7
\* C7 as stated, for Evaluate: a policy with a tier whose duration does not parse
\* makes Evaluate return an error for every resource, whatever its age and class.
C7_MalformedPolicyAlwaysFails ==
    ret # NIL /\ (\E i \in DOMAIN arg.policy.Tiers :
                     ParseDuration(arg.policy.Tiers[i].Duration).err)
        => ret.err

\* ---------------------------------------------------------------- C10
\* C10 as stated: all the resources of a pass are matched and evaluated against
\* one single policy set.
C10_OnePolicySetPerPass ==
    \A i, j \in DOMAIN trace : trace[i].policies = trace[j].policies

\* ---------------------------------------------------------------- C9
\* C9 as stated: after a refresh cycle in which an upstream source failed
\* (inventory, policy listing or usage source) the cached metrics, summary,
\* recommendations and policies, and the controller's policy set, are those the
\* last cycle without a failure left.
C9_FailedCycleKeepsCache ==
    upstream # NIL /\ "err" \in {upstream.inventory, upstream.usage, upstream.policies} =>
        /\ store = prev.store
        /\ engine = prev.engine

\* ---------------------------------------------------------------- C11
\* the places of the returned list that hold the metric of resource i
PlacesOf(i) ==
    {k \in DOMAIN ret.metrics :
        /\ ret.metrics[k].Namespace = arg.pvcs[i].Namespace
        /\ ret.metrics[k].Name = arg.pvcs[i].Name}

\* C11: CollectAll returns either no error and exactly one metric for each
\* enumerated resource, in any order, or, cancellation having been observed, an
\* error and no metrics; it never returns a partial list, and returns nothing
\* before it is done.
C11_AllOrNothing ==
    /\ cpc.at \in {"enqueue", "collect"} => ret = NIL
    /\ cpc.at = "done" =>
        \/ /\ ~ret.err
           /\ Len(ret.metrics) = NumPVCs
           /\ \A i \in DOMAIN arg.pvcs : Cardinality(PlacesOf(i)) = 1
        \/ /\ ret.err /\ ctxDone
           /\ ret.metrics = <<>>

\* cancellation was observed after a part of the results had been drained
C11_Witness ==
    /\ cpc.at = "done" /\ ret.err
    /\ Len(collected) > 0 /\ Len(collected) < NumPVCs

\* ---------------------------------------------------------------- C12
\* C12 as stated: every returned metric carries the pre-fetched lookups of its
\* own resource: used bytes and last activity of the usage map's entry for
\* (namespace, name), the pod list of the relationship map's entry for
\* namespace/name, and the egress bytes of the traffic map's value for its
\* correlation key, each when the entry exists.
C12_MetricsCarryLookups ==
    cpc.at = "done" /\ ~ret.err =>
        \A k \in DOMAIN ret.metrics :
            LET m  == ret.metrics[k]
                lk == arg.lookups
            IN  /\ (lk.usage # NIL /\ m.Namespace \in DOMAIN lk.usage
                        /\ m.Name \in DOMAIN lk.usage[m.Namespace]) =>
                      /\ m.UsedBytes = lk.usage[m.Namespace][m.Name].UsedBytes
                      /\ m.LastAccessedAt = lk.usage[m.Namespace][m.Name].LastActivity
                /\ PodKey(m.Namespace, m.Name) \in DOMAIN lk.pods =>
                      m.MountedPods = lk.pods[PodKey(m.Namespace, m.Name)]
                /\ (lk.egress # NIL /\ m.Namespace \in DOMAIN lk.egress) =>
                      m.EgressBytes = lk.egress[m.Namespace]

\* ---------------------------------------------------------------- C13
\* every tick consumed so far has called the supplier once and started a pass
\* on the snapshot that call returned; a returned Start leaves no pass unfinished
C13_OnePassPerTick ==
    /\ supplied.calls = ticks
    /\ ticks > 0 => metrics = supplied.last
    /\ pc = "loop" => Len(trace) = idx - 1
    /\ pc = "returned" => ctxDone /\ (trace = <<>> \/ Len(trace) = Len(metrics))

\* C13: Start runs until cancellation. Every tick it consumes causes one call of
\* the metrics supplier followed by one Reconcile pass of the snapshot returned;
\* once the token is cancelled Start eventually returns, a pass in progress
\* being completed and not interrupted; after Start has returned the supplier is
\* not called and no pass begins.
C13_StartRunsUntilCancelled ==
    /\ []C13_OnePassPerTick
    /\ [][pc = "returned" => UNCHANGED <<pc, ticks, supplied, metrics, idx, trace, log>>]_vars
    /\ (ctxDone ~> pc = "returned")

\* Start has returned after a tick whose pass, on a snapshot of a changed
\* cluster, ran to its end
C13_Witness ==
    /\ pc = "returned" /\ ticks = MaxTicks
    /\ trace # <<>> /\ Len(trace) = Len(metrics)
    /\ metrics # cluster

\* ---------------------------------------------------------------- C14
\* C14 as stated: for a resource whose used bytes are unknown, reported as zero,
\* usage-based detection abstains: the optimizer's right-sizing detector has no
\* finding and the recommender's right-sizing analysis proposes no resize.
C14_NoUsageNoResize ==
    ret # NIL /\ arg.pvc.UsedBytes = 0 =>
        /\ ret.oversized = NIL
        /\ ret.rec # NIL =>
             /\ ret.rec.Reason # "Right-sizing"
             /\ ret.rec.TargetSize = FormatQuantity(arg.pvc.SizeBytes)

\* ---------------------------------------------------------------- C15
\* C15 as stated: what the migration collaborator receives for a transition,
\* target class, target size and tier label, is what the recommendation that
\* caused it says; for a rule-based transition that is the eligible tier's
\* storage class, the resource's current size and that tier's label.
C15_DecisionPassedThrough ==
    \A k \in DOMAIN log : \A i \in DOMAIN trace :
        trace[i].Name = log[k].Name =>
            LET rec == trace[i].recs[1]
                pvc == metrics[i]
                ev  == Evaluate(pvc, Match(trace[i].policies, pvc), now)
            IN  /\ log[k].TargetClass = rec.TargetClass
                /\ log[k].TargetSize = rec.TargetSize
                /\ log[k].TargetTier = rec.TargetTier
                /\ trace[i].path = "rule" =>
                     /\ rec.TargetClass = ev.tier.StorageClass
                     /\ rec.TargetSize = FormatQuantity(pvc.SizeBytes)
                     /\ rec.TargetTier = ev.tier.Name

\* ---------------------------------------------------------------- C16
\* C16: GetPrice resolves by three levels: the exact entry when it exists, else
\* the provider-level default, else the single global default; the price is
\* never the absent zero value; an unknown class under a known provider gets
\* that provider's default, an unknown provider the global default.
C16_Priced == ret # NIL

C16_Exact ==
    PriceKey(arg.provider, arg.storageClass) \in DOMAIN pricingData
        => ret = pricingData[PriceKey(arg.provider, arg.storageClass)]

C16_NeverAbsent == ret # ZeroPricing /\ ret.PerGBMonth > 0

C16_UnknownProvider ==
    (arg.provider \notin KnownProviders
        /\ PriceKey(arg.provider, arg.storageClass) \notin DOMAIN pricingData)
        => ret = pricingData["unknown-default"]

C16_ProviderDefault ==
    (arg.provider \in KnownProviders
        /\ PriceKey(arg.provider, arg.storageClass) \notin DOMAIN pricingData)
        => /\ PriceKey(arg.provider, "default") \in DOMAIN pricingData
           /\ ret = pricingData[PriceKey(arg.provider, "default")]

C16_ThreeLevels ==
    C16_Priced => C16_Exact /\ C16_NeverAbsent /\ C16_UnknownProvider /\ C16_ProviderDefault

C16_TwoLevelsOnly ==
    C16_Priced => C16_Exact /\ C16_NeverAbsent /\ C16_UnknownProvider

\* ---------------------------------------------------------------- C17
\* C17: CalculatePVCCost returns the capacity in GiB times the per-GiB monthly
\* price, plus (total IOPS - 3000) times the per-IOPS price only when the class
\* is provisioned and total IOPS exceeds 3000, and leaves exactly the returned
\* value on the metric's MonthlyCost: 100 GiB at 0.08 with IOPS at or below the
\* baseline cost 8.00, and 1000 IOPS above the baseline at 0.005 add 5.00.
C17_Calculated == ret # NIL /\ ret.op = "CalculatePVCCost"

C17_Price == GetPrice(arg.provider, arg.metric.StorageClass, "us-east-1")

C17_Storage == arg.metric.SizeBytes * C17_Price.PerGBMonth

C17_Charged == C17_Price.Provisioned /\ TotalIOPS(arg.metric) > 3000

C17_CostAndStamp ==
    C17_Calculated =>
        /\ C17_Charged =>
             ret.cost = C17_Storage + (TotalIOPS(arg.metric) - 3000) * C17_Price.PerIOPS * GiB
        /\ ~C17_Charged => ret.cost = C17_Storage
        /\ ret.metric.MonthlyCost = ret.cost
        /\ ret.metric = [arg.metric EXCEPT !.MonthlyCost = ret.cost]
        /\ (arg.metric.SizeBytes = 100 * GiB /\ C17_Price.PerGBMonth = 80
              /\ TotalIOPS(arg.metric) <= 3000) => ret.cost = Dollars(8)
        /\ (C17_Price.Provisioned /\ C17_Price.PerIOPS = 5
              /\ TotalIOPS(arg.metric) = 3000 + 1000) => ret.cost = C17_Storage + Dollars(5)

C17_Witness ==
    /\ C17_Calculated
    /\ arg.provider = "aws" /\ arg.metric.StorageClass = "gp3"
    /\ arg.metric.SizeBytes = 100 * GiB /\ TotalIOPS(arg.metric) = 4000
    /\ arg.metric.MonthlyCost # ret.cost
    /\ ret.cost = Dollars(13)

C17_WitnessBaseline ==
    /\ C17_Calculated
    /\ arg.provider = "aws" /\ arg.metric.StorageClass = "gp3"
    /\ arg.metric.SizeBytes = 100 * GiB /\ TotalIOPS(arg.metric) = 3000
    /\ ret.cost = Dollars(8)

\* ---------------------------------------------------------------- C20
\* C20: EstimateSavings does not mutate the metric it is given: after the call
\* every field of the original, its StorageClass and its MonthlyCost included,
\* has the value it had before the call, for every target class.
C20_Estimated == ret # NIL /\ ret.op = "EstimateSavings"

C20_OriginalUntouched == C20_Estimated => ret.metric = arg.metric

C20_OnlyMonthlyCostTouched ==
    C20_Estimated =>
        /\ ret.metric = [arg.metric EXCEPT !.MonthlyCost = PVCCost(arg.metric, arg.provider)]
        /\ ret.metric.StorageClass = arg.metric.StorageClass

\* ---------------------------------------------------------------- C18
\* C18: after GenerateSummary, TotalMonthlyCost is the sum of the computed
\* costs of all input metrics, and each of the four breakdowns (by namespace,
\* by storage class, by provider, by cluster) sums to TotalMonthlyCost, every
\* metric being counted in exactly one bucket of each breakdown; an empty
\* provider or cluster field falls into the default label.
C18_Summarized == ret # NIL /\ ret.op = "GenerateSummary"

\* the sum of the costs of the input metrics at the given indices
RECURSIVE C18_CostOfIndices(_)
C18_CostOfIndices(indices) ==
    IF indices = {} THEN 0
    ELSE LET i == CHOOSE x \in indices : TRUE
         IN  PVCCost(arg.metrics[i], arg.provider) + C18_CostOfIndices(indices \ {i})

RECURSIVE C18_SumOfBuckets(_, _)
C18_SumOfBuckets(m, keys) ==
    IF keys = {} THEN 0
    ELSE LET k == CHOOSE x \in keys : TRUE
         IN  m[k] + C18_SumOfBuckets(m, keys \ {k})

C18_NamespaceOf(i) == arg.metrics[i].Namespace

C18_ClassOf(i) == arg.metrics[i].StorageClass

C18_ProviderOf(i) ==
    IF arg.metrics[i].Provider = "" THEN arg.provider ELSE arg.metrics[i].Provider

C18_ClusterOf(i) ==
    IF arg.metrics[i].ClusterID = "" THEN "default-cluster" ELSE arg.metrics[i].ClusterID

\* breakdown m puts every metric in the one bucket keyOf names, and nothing else
C18_Partitions(m, keyOf) ==
    /\ DOMAIN m = {keyOf[i] : i \in DOMAIN arg.metrics}
    /\ \A k \in DOMAIN m : m[k] = C18_CostOfIndices({i \in DOMAIN arg.metrics : keyOf[i] = k})
    /\ C18_SumOfBuckets(m, DOMAIN m) = ret.summary.TotalMonthlyCost

C18_BreakdownsSumToTotal ==
    C18_Summarized =>
        /\ ret.summary.TotalMonthlyCost = C18_CostOfIndices(DOMAIN arg.metrics)
        /\ C18_Partitions(ret.summary.ByNamespace,
                          [i \in DOMAIN arg.metrics |-> C18_NamespaceOf(i)])
        /\ C18_Partitions(ret.summary.ByStorageClass,
                          [i \in DOMAIN arg.metrics |-> C18_ClassOf(i)])
        /\ C18_Partitions(ret.summary.ByProvider,
                          [i \in DOMAIN arg.metrics |-> C18_ProviderOf(i)])
        /\ C18_Partitions(ret.summary.ByCluster,
                          [i \in DOMAIN arg.metrics |-> C18_ClusterOf(i)])

\* two metrics of one namespace and one (defaulted) provider in two clusters
C18_Witness ==
    /\ C18_Summarized
    /\ Len(arg.metrics) = 2
    /\ arg.metrics[1].Namespace = arg.metrics[2].Namespace
    /\ arg.metrics[1].StorageClass # arg.metrics[2].StorageClass
    /\ arg.metrics[1].Provider = "" /\ arg.metrics[2].Provider = "" /\ arg.provider = "aws"
    /\ DOMAIN ret.summary.ByProvider = {"aws"}
    /\ DOMAIN ret.summary.ByCluster = {"default-cluster", "cluster-b"}
    /\ ret.summary.ByNamespace["default"] = ret.summary.TotalMonthlyCost
    /\ ret.summary.TotalMonthlyCost > 0

\* ---------------------------------------------------------------- C19
\* C19: a metric whose LastAccessedAt is unset is never treated as a zombie:
\* IsZombie is false for it, it never appears in GenerateSummary's zombie list,
\* and checkZombieVolume emits no delete_zombie finding for it; a metric is
\* flagged if and only if its last access is known and lies more than 30 days
\* in the past.
C19_Flagged(m) == m.LastAccessedAt # 0 /\ arg.now - m.LastAccessedAt > 30 * Day

C19_Names(ms) == [i \in DOMAIN ms |-> <<ms[i].Name, ms[i].LastAccessedAt>>]

C19_FlaggedInputs == SelectSeq(arg.metrics, C19_Flagged)

C19_ZombieIffKnownAndOld ==
    ret # NIL =>
        /\ ret.op = "IsZombie" =>
             \A i \in DOMAIN arg.metrics : ret.zombie[i] <=> C19_Flagged(arg.metrics[i])
        /\ ret.op = "checkZombieVolume" =>
             \A i \in DOMAIN arg.metrics :
                /\ ret.recs[i] # NIL <=> C19_Flagged(arg.metrics[i])
                /\ ret.recs[i] # NIL =>
                     ret.recs[i].Type = "delete_zombie" /\ ret.recs[i].PVC = arg.metrics[i].Name
        /\ ret.op = "GenerateSummary" =>
             /\ C19_Names(ret.summary.ZombieVolumes) = C19_Names(C19_FlaggedInputs)
             /\ \A i \in DOMAIN ret.summary.ZombieVolumes :
                    ret.summary.ZombieVolumes[i].LastAccessedAt # 0

\* an unset metric next to one 30 days and a second old: only the second is listed
C19_Witness ==
    /\ C18_Summarized
    /\ Len(arg.metrics) = 2
    /\ arg.metrics[1].LastAccessedAt = 0
    /\ arg.metrics[2].LastAccessedAt = arg.now - 30 * Day - 1
    /\ Len(ret.summary.ZombieVolumes) = 1
    /\ ret.summary.ZombieVolumes[1].Name = arg.metrics[2].Name

C19_WitnessDetector ==
    /\ ret # NIL /\ ret.op = "checkZombieVolume"
    /\ Len(arg.metrics) = 2
    /\ arg.metrics[1].LastAccessedAt = 0 /\ ret.recs[1] = NIL
    /\ arg.metrics[2].LastAccessedAt = arg.now - 40 * Day /\ ret.recs[2] # NIL

\* ---------------------------------------------------------------- C21
\* C21: GenerateRecommendations runs the cross-provider detector as part of its
\* battery: for a resource above the cost floor whose three months of savings
\* against the alternate provider's pricing exceed the one-time egress cost,
\* the returned list contains a move_cloud finding for it with impact high.
C21_Generated == ret # NIL /\ ret.op = "GenerateRecommendations"

C21_Has(recs, type, name) ==
    \E k \in DOMAIN recs : recs[k].Type = type /\ recs[k].PVC = name

C21_CrossCloudInBattery ==
    C21_Generated =>
        \A i \in DOMAIN arg.metrics :
            checkCrossCloudMigration(ret.metrics[i]) # NIL =>
                \E k \in DOMAIN ret.recs :
                    /\ ret.recs[k].Type = "move_cloud"
                    /\ ret.recs[k].PVC = arg.metrics[i].Name
                    /\ ret.recs[k].Impact = "high"

\* what does hold: no finding of the returned list is a move_cloud finding
C21_NeverCrossCloud ==
    C21_Generated => \A k \in DOMAIN ret.recs : ret.recs[k].Type # "move_cloud"

\* ---------------------------------------------------------------- C22
\* C22: GenerateRecommendations returns the merged findings of its detectors
\* over all resources ordered by monthly savings, highest first: savings[i] >=
\* savings[i+1] for every adjacent pair, and the result holds exactly the
\* findings the detectors produced, none dropped and none duplicated.
C22_Count(recs, r) == Cardinality({k \in DOMAIN recs : recs[k] = r})

C22_SameFindings(a, b) ==
    /\ Len(a) = Len(b)
    /\ \A k \in DOMAIN a : C22_Count(a, a[k]) = C22_Count(b, a[k])

C22_SortedAndComplete ==
    C21_Generated =>
        /\ \A k \in 1..(Len(ret.recs) - 1) :
              ret.recs[k].MonthlySavings >= ret.recs[k + 1].MonthlySavings
        /\ \E best \in [DOMAIN arg.metrics -> {"gp3", "sc1", "st1"}] :
              C22_SameFindings(ret.recs, Findings(arg.metrics, arg.provider, arg.now, best, 1))

\* two findings of equal savings for different resources below a larger one
C22_Witness ==
    /\ C21_Generated
    /\ Len(ret.recs) >= 3
    /\ \E k \in 1..(Len(ret.recs) - 1) :
          ret.recs[k].MonthlySavings > ret.recs[k + 1].MonthlySavings
    /\ \E k \in 1..(Len(ret.recs) - 1) :
          /\ ret.recs[k].MonthlySavings = ret.recs[k + 1].MonthlySavings
          /\ ret.recs[k].PVC # ret.recs[k + 1].PVC

\* ---------------------------------------------------------------- C23
\* C23: checkOversizedVolume emits a resize finding if and only if used bytes
\* are non-zero, the capacity exceeds 50 GiB and the utilization is below 20%;
\* the proposed size is 1.5 times the used capacity, floored at 10 GiB.  Hence
\* for a fleet holding a resource unused for more than 30 days and a 200 GiB
\* resource at 5%, GenerateRecommendations returns at least one delete_zombie
\* and at least one resize finding.
C23_Oversized(m) ==
    m.UsedBytes # 0 /\ m.SizeBytes > 50 * GiB /\ m.UsedBytes * 100 < 20 * m.SizeBytes

C23_Proposed(m) ==
    IF 3 * m.UsedBytes < 2 * 10 * GiB THEN 10 * GiB ELSE (3 * m.UsedBytes) \div 2

C23_Unused(m) == m.LastAccessedAt # 0 /\ arg.now - m.LastAccessedAt > 30 * Day

C23_ResizeIffOversized ==
    ret # NIL =>
        /\ ret.op = "checkOversizedVolume" =>
             \A i \in DOMAIN arg.metrics :
                /\ ret.recs[i] # NIL <=> C23_Oversized(arg.metrics[i])
                /\ ret.recs[i] # NIL =>
                     /\ ret.recs[i].Type = "resize"
                     /\ ret.recs[i].PVC = arg.metrics[i].Name
                     /\ ret.recs[i].RecommendedSize = C23_Proposed(arg.metrics[i])
        /\ ret.op = "GenerateRecommendations" =>
             \A i, j \in DOMAIN arg.metrics :
                (/\ C23_Unused(arg.metrics[i])
                 /\ arg.metrics[j].SizeBytes = 200 * GiB
                 /\ arg.metrics[j].UsedBytes * 100 = 5 * arg.metrics[j].SizeBytes)
                  => /\ \E k \in DOMAIN ret.recs : ret.recs[k].Type = "delete_zombie"
                     /\ \E k \in DOMAIN ret.recs : ret.recs[k].Type = "resize"

\* the fleet of the test: both findings are returned
C23_Witness ==
    /\ C21_Generated
    /\ Len(arg.metrics) = 2
    /\ arg.metrics[1].Name = "zombie-pvc" /\ arg.metrics[2].Name = "oversized-pvc"
    /\ C21_Has(ret.recs, "delete_zombie", "zombie-pvc")
    /\ C21_Has(ret.recs, "resize", "oversized-pvc")

\* a resource of exactly 50 GiB at 10% next to one of 100 GiB at 5%
C23_WitnessFloor ==
    /\ ret # NIL /\ ret.op = "checkOversizedVolume"
    /\ Len(arg.metrics) = 2
    /\ arg.metrics[1].Name = "floor-pvc" /\ ret.recs[1] = NIL
    /\ arg.metrics[2].Name = "idle-pvc" /\ ret.recs[2] # NIL
    /\ ret.recs[2].RecommendedSize = 10 * GiB

\* ---------------------------------------------------------------- C24
\* C24: checkStorageClassOptimization recommends a target class only when the
\* estimated savings of the class change exceed 0.50 a month, and takes the
\* target from the provider's decision table keyed by the normalized class
\* name (provider prefix stripped) and total IOPS: on AWS gp2/gp3 below 500
\* IOPS gives sc1 and below 1000 gives st1, io1/io2 below 3000 IOPS gives gp3,
\* and gp3 at 5000 IOPS gives no recommendation.
C24_Checked == ret # NIL /\ ret.op = "checkStorageClassOptimization"

C24_Normalized(sc) == IF sc = "aws-gp3" THEN "gp3" ELSE sc

\* the AWS decision table of the claim: the target, "" for none
C24_AwsTable(class, iops) ==
    CASE class \in {"gp2", "gp3"} /\ iops < 500 -> "sc1"
      [] class \in {"gp2", "gp3"} /\ iops >= 500 /\ iops < 1000 -> "st1"
      [] class \in {"io1", "io2"} /\ iops < 3000 -> "gp3"
      [] OTHER -> ""

\* the cost of the metric on its class less its cost on the target class
C24_SavingsTo(target) ==
    PVCCost(arg.m, arg.provider) - PVCCost([arg.m EXCEPT !.StorageClass = target], arg.provider)

C24_TableAndThreshold ==
    C24_Checked =>
        /\ ret.rec # NIL => ret.rec.Type = "storage_class" /\ ret.rec.MonthlySavings > Dollars(1) \div 2
        /\ arg.provider = "aws" =>
             LET target == C24_AwsTable(C24_Normalized(arg.m.StorageClass),
                                        arg.m.ReadIOPS + arg.m.WriteIOPS)
             IN  /\ ret.rec # NIL <=> (target # "" /\ C24_SavingsTo(target) > Dollars(1) \div 2)
                 /\ ret.rec # NIL =>
                      /\ ret.rec.RecommendedState = target
                      /\ ret.rec.MonthlySavings = C24_SavingsTo(target)
        /\ (arg.provider = "aws" /\ arg.m.StorageClass = "gp3"
              /\ arg.m.ReadIOPS + arg.m.WriteIOPS = 5000) => ret.rec = NIL

\* io1 at 2999 IOPS on AWS: gp3 is recommended
C24_Witness ==
    /\ C24_Checked
    /\ arg.provider = "aws" /\ arg.m.StorageClass = "io1"
    /\ arg.m.ReadIOPS = 2999 /\ arg.m.SizeBytes = 100 * GiB
    /\ ret.rec # NIL /\ ret.rec.RecommendedState = "gp3"

\* gp3 of 5 GiB at 100 IOPS: the table says sc1, the savings stay under 0.50
C24_WitnessBelowThreshold ==
    /\ C24_Checked
    /\ arg.provider = "aws" /\ arg.m.StorageClass = "gp3"
    /\ arg.m.ReadIOPS = 100 /\ arg.m.SizeBytes = 5 * GiB
    /\ ret.rec = NIL

\* the prefixed class aws-gp3 at 999 IOPS: st1
C24_WitnessPrefixed ==
    /\ C24_Checked
    /\ arg.provider = "aws" /\ arg.m.StorageClass = "aws-gp3" /\ arg.m.ReadIOPS = 999
    /\ ret.rec # NIL /\ ret.rec.RecommendedState = "st1"


\* ---------------------------------------------------------------- C25
\* C25 as stated: the refresh routine writes a cached field (metrics, summary,
\* recommendations, policies) only while it holds the store's write lock, and
\* no reader holds the read lock while such a write is in progress.
C25_WritesUnderWriteLock ==
    rpc.writing /\ FieldWritten \in {"Metrics", "Summary", "Recommendations", "Policies"} =>
        mu.writer /\ mu.readers = 0

\* What the code does keep: the assignments between Lock and Unlock exclude
\* every reader, ...
C25_LockedWritesExcludeReaders ==
    rpc.at \in {"locked", "unlock"} => mu.writer /\ mu.readers = 0

\* ... the write lock is held for those assignments only (collection, cost
\* computation and policy fetching run with the lock released), ...
C25_LockOnlyForAssignments ==
    mu.writer => rpc.at \in {"locked", "unlock"}

\* ... and a reader of metrics, summary or recommendations never sees a mix.
C25_OnlyPoliciesTorn ==
    ret # NIL /\ ret.value = Torn => ret.reader = "handlePolicies"

\* The data race is reachable: handlePolicies reads store.Policies while
\* reconcile is assigning it, and gets a mix of the old and the new slice.
C25_PoliciesNeverTorn == ~(ret # NIL /\ ret.value = Torn)


\* ---------------------------------------------------------------- C26
C26_Max(a, b) == IF a > b THEN a ELSE b

C26_Min(a, b) == IF a < b THEN a ELSE b

\* C26: for n > 0 enumerated resources CollectAll starts exactly
\* max(5, min(50, n div 20)) workers, so never fewer than 5 once they are
\* started and never more than 50 at any time; for n = 0 it starts no worker
\* and returns the empty list.
C26_PoolSize ==
    /\ Len(workers) <= 50
    /\ cpc.at = "enqueue" =>
          /\ arg > 0
          /\ Len(workers) = C26_Max(5, C26_Min(50, arg \div 20))
          /\ Len(workers) >= 5
    /\ arg = 0 =>
          /\ workers = <<>>
          /\ cpc.at \in {"settings", "done"}
          /\ cpc.at = "done" => ret = [metrics |-> <<>>, err |-> FALSE]

\* 1100 resources: 1100 div 20 is 55, and 50 workers are started
C26_Witness ==
    arg = 1100 /\ cpc.at = "enqueue" /\ Len(workers) = 50

\* between floor and ceiling the pool follows the count: 600 resources, 30 workers
C26_WitnessScaled ==
    arg = 600 /\ cpc.at = "enqueue" /\ Len(workers) = 30

\* 99 resources: 99 div 20 is 4, and the floor of 5 applies
C26_WitnessFloor ==
    arg = 99 /\ cpc.at = "enqueue" /\ Len(workers) = 5

\* nothing enumerated: no worker, the empty list
C26_WitnessEmpty ==
    arg = 0 /\ cpc.at = "done" /\ workers = <<>> /\ ret.metrics = <<>>


\* ---------------------------------------------------------------- C27
C27_Top == ret.summary.TopExpensive

\* the list as it enters the selection: the input with the costs stamped
C27_Entering == Aggregate(arg.metrics, arg.provider, arg.now, 1, EmptySummary).metrics

C27_Holds(top, entering, after) ==
    LET n == Len(entering)
        k == Len(top)
    IN  /\ k = IF n < 10 THEN n ELSE 10
        /\ \A i \in 1..(k - 1) : top[i].MonthlyCost >= top[i + 1].MonthlyCost
        /\ \A i \in 1..k : \E j \in 1..n : top[i] = entering[j]
        /\ \A i, j \in 1..k : top[i].Name = top[j].Name => i = j
        /\ \A i \in 1..n :
              (\A j \in 1..k : top[j].Name # after[i].Name) =>
                  \A j \in 1..k : after[i].MonthlyCost <= top[j].MonthlyCost
        /\ Len(after) = n
        /\ \A i \in 1..n : \E j \in 1..n : after[j] = entering[i]

\* C27: the top-expensive list of a summary of n resources has min(10, n)
\* entries in non-increasing order of cost, each a distinct input resource, no
\* resource outside it costs more than one inside it, and the selection leaves
\* the caller's list a permutation of what it was.
C27_TopExpensive ==
    ret # NIL /\ ret.op = "GenerateSummary" =>
        \E entering \in {C27_Entering} : C27_Holds(C27_Top, entering, ret.metrics)

\* eleven resources, the most expensive one last: ten are listed, it comes
\* first, and one of the cheapest is left out
C27_Witness ==
    /\ ret # NIL /\ Len(arg.metrics) = 11
    /\ \A i \in 1..10 : arg.metrics[i].SizeBytes = 10 * GiB
    /\ arg.metrics[11].SizeBytes = 30 * GiB
    /\ Len(C27_Top) = 10 /\ C27_Top[1].Name = "pvc-11"
    /\ \A j \in 1..10 : C27_Top[j].Name # ret.metrics[11].Name

\* three resources: all three are listed
C27_WitnessShort ==
    ret # NIL /\ Len(arg.metrics) = 3 /\ Len(C27_Top) = 3
    /\ C27_Top[1].MonthlyCost > C27_Top[3].MonthlyCost


\* ---------------------------------------------------------------- C28
\* the tiers of the policy have pairwise distinct storage classes
C28_DistinctClasses ==
    \A i, j \in DOMAIN arg.policy.Tiers :
        arg.policy.Tiers[i].StorageClass = arg.policy.Tiers[j].StorageClass => i = j

\* the Go index of a tier of the policy (the enumerated tiers differ in name)
C28_IndexOf(tier) ==
    (CHOOSE i \in DOMAIN arg.policy.Tiers : arg.policy.Tiers[i].Name = tier.Name) - 1

\* C28: when Evaluate returns tier T and the resource is moved to T's storage
\* class, Evaluate at the same age under the same policy returns no tier,
\* provided the policy's tiers have pairwise distinct storage classes; and the
\* tier Evaluate returns is always past the resource's current tier index.
C28_ConvergesAfterApply ==
    ret # NIL =>
        /\ ret.first.tier # NIL =>
              /\ ret.first.tier \in {arg.policy.Tiers[i] : i \in DOMAIN arg.policy.Tiers}
              /\ C28_IndexOf(ret.first.tier)
                    > CurrentTierIndex(arg.policy.Tiers, ret.before.StorageClass, 1)
        /\ ret.second # NIL /\ C28_DistinctClasses =>
              ret.second = [tier |-> NIL, err |-> FALSE]

\* a resource on the first of three tiers of distinct classes, old enough for
\* the third: Evaluate returns the third tier, and nothing once it is applied
C28_Witness ==
    /\ ret # NIL /\ ret.second # NIL /\ C28_DistinctClasses
    /\ Len(arg.policy.Tiers) = 3
    /\ ret.before.StorageClass = arg.policy.Tiers[1].StorageClass
    /\ ret.first.tier = arg.policy.Tiers[3]
    /\ arg.pvc.StorageClass = arg.policy.Tiers[3].StorageClass
    /\ ret.second.tier = NIL

\* The proviso is needed: with the returned tier's class also on an earlier
\* tier, the second evaluation returns the same tier again.
C28_ConvergesWithAnyTiers ==
    ret # NIL /\ ret.second # NIL => ret.second.tier = NIL


\* ---------------------------------------------------------------- C29
\* C29 as stated: with every requested migration applied and nothing else
\* changing, after finitely many ticks no pass requests a migration any more.
C29_Stabilizes == <>[](log = <<>>)

\* the agent's answers of the last pass were all its exploitation answer, the
\* first class offered
C29_Greedy == \A i \in DOMAIN trace : trace[i] = AvailableClasses[1]

\* C29's particular case: the loop would stabilize at least when the agent
\* stops exploring.  It does not: a resource on the agent's class is sent to
\* the policy's tier class, and from there back to the agent's class.
C29_StabilizesWhenGreedy == <>[]C29_Greedy => <>[](log = <<>>)


\* The same for a resource that is half full, which gets neither a right-sizing
\* nor a zombie recommendation: the requests alternate between the agent's class
\* and the tier's class for ever.
C29_NoAlternation ==
    (\A i \in DOMAIN cluster : cluster[i].UsedBytes * 2 = cluster[i].SizeBytes)
        /\ <>[]C29_Greedy => <>[](log = <<>>)


\* ---------------------------------------------------------------- C30
\* nothing waits on a full channel: the enqueueing finds room in jobs, a worker
\* with a metric finds room in results
C30_NeverBlocked ==
    /\ cpc.at = "enqueue" => Len(jobs) < JobsCap
    /\ \A w \in DOMAIN workers : workers[w].st = "busy" => Len(results) < ResultsCap

\* a worker that finds the context cancelled when it receives a job returns
\* and sends nothing for it
C30_CancelledJobDropped ==
    \A w \in DOMAIN workers :
        workers[w].st = "idle" /\ workers'[w] # workers[w] /\ jobs' # jobs /\ ctxDone =>
            workers'[w].st = "exited" /\ results' = results

C30_AllReturned ==
    cpc.at = "done" /\ \A w \in DOMAIN workers : workers[w].st = "exited"

\* C30: CollectAll cannot block for ever and leaks no worker: neither the
\* enqueueing nor a worker's send ever waits, a worker that observes the
\* cancellation on receiving a job does not process it, and in the end
\* CollectAll has returned and every worker has terminated, cancelled or not.
C30_NoBlockNoLeak ==
    /\ []C30_NeverBlocked
    /\ [][C30_CancelledJobDropped]_vars
    /\ <>[]C30_AllReturned

\* the collecting goroutine has returned on cancellation, a worker has sent its
\* metric afterwards, and every worker has terminated
C30_Witness ==
    /\ C30_AllReturned /\ ret.err /\ ctxDone
    /\ Len(results) > 0 /\ Len(collected) + Len(results) = NumPVCs

\* a cancellation observed by a worker: its job is dropped, and everything
\* terminates all the same
C30_WitnessDropped ==
    /\ C30_AllReturned /\ ret.err
    /\ Len(collected) + Len(results) < NumPVCs

====
